---- MODULE Spec2Model ----
(***************************************************************************)
(* A model of the SWE pipeline step ProducePatchStep                       *)
(* (swe/steps/step2/step2.py) on top of Step (swe/steps/step.py).          *)
(*                                                                         *)
(* The working tree is the set of diff chunks currently applied on top of  *)
(* the checked-out revision; `git diff` prints the empty text exactly when *)
(* that set is empty, and two trees print the same text exactly when they  *)
(* hold the same chunks.                                                   *)
(***************************************************************************)
EXTENDS Integers, Sequences, FiniteSets, Bags, TLC

\* ---------------------------------------------------------------- bounds
MaxChoices == 4      \* largest patch_choices a run is started with
MaxMsgs    == 1      \* messages returned by one deterministic patch call
MaxCount   == 1      \* largest Message.count of a diff message
MaxFiles   == 2      \* longest files list of a locate result
MaxNew     == 1      \* new messages of one answered request made on a bare Step
MaxUsages  == 3      \* longest usage list a bare Step is driven to
MaxEntries == 2      \* longest trajectory a bare Step is driven to
MaxLines   == 1      \* lines after the last "result" of a sampled answer
MaxSent    == 2      \* most requests a bare Step is driven to make
MaxScan    == 2      \* lines between two "result" markers of a content

\* ------------------------------------------------------ program constants
SuccessCap == 3      \* step2.py:223  `if patch_count == 3: break`
TopFiles   == 5      \* step1_tree.py:85  `file_counter.most_common(5)`

\* The diff chunks the patch tool can propose, and the file each one edits
\* (d["file_name"]).
Chunks == {"c1", "c2"}
FileOf(c) == IF c = "c1" THEN "a.py" ELSE "b.py"

\* The exception classes an attempt can raise.
ValidationError == "ValidationError"   \* RuntimeError raised by _patch's checks
ParseError      == "ParseError"        \* json.loads / tool_calls[0] failure
NotFoundError   == "NotFoundError"     \* RuntimeError("expected a diff message")
TransportError  == "TransportError"    \* ask_using_http failed
ExternalError   == "ExternalServiceError" \* diff_apply / git diff / flake8 failed

\* No exception in flight.
NoError == [kind |-> "none", stage |-> "none"]

LocalErrors == {ValidationError, ParseError, NotFoundError}
FatalErrors == {TransportError, ExternalError}

\* The shapes of the last message of one sampled continuation: a patch tool
\* call with one path and a plan ("ok"), one whose arguments have no `paths`
\* key or an empty one ("no_paths"), and the malformed ones.
SampleShapes ==
    {"ok", "no_paths", "no_tool_call", "not_patch", "bad_json", "many_paths", "no_todo"}

\* len(args.get("paths", "").split(",")): "".split(",") is [""].
NumPathParts(shape) ==
    IF shape = "many_paths" THEN 2 ELSE 1

\* Messages a deterministic patch call can return.
DiffMessages ==
    [role : {"diff"}, ok : {TRUE}, chunks : SUBSET Chunks, count : 1 .. MaxCount]
ToolMessages ==
    { [role |-> "tool", ok |-> TRUE, chunks |-> {}, count |-> 1],
      [role |-> "diff", ok |-> FALSE, chunks |-> {}, count |-> 1] }
PatchToolMessages == DiffMessages \cup ToolMessages

VARIABLES
    pc,                     \* position inside ProducePatchStep.process
    patch_choices,          \* self._patch_choices
    tree,                   \* the working tree: chunks applied on disk
    active_tools,           \* self._active_tools
    trajectory,             \* self._trajectory, as the bag of its entries
    idx,                    \* samples of the batch taken so far
    sample,                 \* shape of new_messages[-1], until _patch has checked it
    patch_count,            \* patch_count
    model_patches_counter,  \* model_patches_counter, in insertion order
    patch_tool_messages,    \* how many messages of the patch call are still to be looked at
    results,                \* results of the current attempt
    formatted_diff,         \* the diff message being processed by _patch_generate
    result,                 \* captured `git diff` text of the current diff
    is_linted,              \* lint verdict of the current diff
    exc,                    \* the exception in flight: its class and where it was raised
    tree_before,            \* the working tree when the current diff was applied
    output,                 \* model_patches_with_scores returned by process
    batch,                  \* what _patch does for each sample of a batch, in order
    order,                  \* a rearrangement of that batch
    scores,                 \* the list returned for the batch as it is
    scores_permuted,        \* the list returned for the rearranged batch
    bpc                     \* which of the two lists have been computed

stepVars == << pc, patch_choices, tree, active_tools, trajectory, idx,
           sample, patch_count, model_patches_counter,
           patch_tool_messages, results, formatted_diff, result, is_linted,
           exc, tree_before, output >>

batchVars == << batch, order, scores, scores_permuted, bpc >>

NoDiff == [role |-> "none", ok |-> TRUE, chunks |-> {}, count |-> 1]

\* The Step instance of another subtype (Locate, ExploreRepoStep,
\* ChooseSolutionStep, or the base class driven directly) and its run.
VARIABLES
    step,                   \* which subtype's process is being run
    spc,                    \* position inside that process
    choices,                \* self._choices
    error,                  \* the exception process was left with
    usages,                 \* self._usages
    traj,                   \* self._trajectory, in order
    requests,               \* requests answered or refused by the endpoint so far
    votes,                  \* what each processed sample contributed, in order
    candidates,             \* ChooseSolutionStep.process: the list object model_patches
    prompt,                 \* ChooseSolutionStep.process: the labelled solutions of the user message
    passed,                 \* that list as it was when process was called
    counter,                \* ChooseSolutionStep.process: counter, in insertion order
    chosen,                 \* the value ChooseSolutionStep.process returned
    file_counter,           \* ExploreRepoStep.process: file_counter, in insertion order
    found_files,            \* the value ExploreRepoStep.process returned
    content,                \* Locate.process: messages[-1].content
    located,                \* the value Locate.process returned
    error_payload           \* the text the raised error quotes

instanceVars == << step, spc, choices, error, usages, traj, requests, votes >>
chooseVars == << candidates, prompt, passed, counter, chosen >>
exploreVars == << file_counter, found_files >>
locateVars == << content, located, error_payload >>
otherSteps == << instanceVars, chooseVars, exploreVars, locateVars >>

\* What the endpoint has been asked so far, by whichever Step is running.
VARIABLES
    sent                    \* the chat requests made through ask_using_http, as a bag

\* _extract_solution called on its own.
VARIABLES
    call_message,           \* the argument message
    call_n_solutions,       \* the argument n_solutions
    call_result             \* what the call returned, or that it raised

extractVars == << call_message, call_n_solutions, call_result >>

NoResult == "none"

\* No other Step instance is running.
OtherStepsIdle ==
    /\ step = "patch" /\ spc = "idle" /\ choices = 0 /\ error = "none"
    /\ usages = << >> /\ traj = << >> /\ requests = 0 /\ votes = << >>
    /\ candidates = << >> /\ passed = << >> /\ counter = << >> /\ chosen = NoResult
    /\ prompt = << >>
    /\ file_counter = << >> /\ found_files = << >>
    /\ content = NoResult /\ located = NoResult /\ error_payload = NoResult
    /\ sent = EmptyBag

\* _patch called on its own, up to its deterministic request.
VARIABLES
    patch_call_message,     \* the tool calls of the argument message when _patch is called
    patch_call_tool_calls,  \* message.tool_calls
    patch_call_outcome      \* "sent" once the request is made, or the exception raised

patchCallVars == << patch_call_message, patch_call_tool_calls, patch_call_outcome >>

\* _patch is not being called on its own.
PatchCallIdle ==
    /\ patch_call_message = << >> /\ patch_call_tool_calls = << >>
    /\ patch_call_outcome = NoResult

\* An LSPServerRunner used as `async with LSPServerRunner(...)`, and its server.
VARIABLES
    rpc,                    \* position of the runner: in _start, in the body, in _stop
    lsp_server,             \* self._lsp_server: "None", or the Process object
    returncode,             \* self._lsp_server.returncode: "None" until the loop has reaped the child
    server,                 \* the server process itself: not started, running, exited
    stderr_pipe,            \* the lines the server has written to stderr, not read yet
    written,                \* how many lines the server has written
    sigterm,                \* terminate() has signalled the server
    runner_error            \* the exception that left _start, the body or _stop

runnerVars == << rpc, lsp_server, returncode, server, stderr_pipe, written, sigterm,
                runner_error >>

\* No runner has been constructed.
RunnerIdle ==
    /\ rpc = "idle" /\ lsp_server = "None" /\ returncode = "None" /\ server = "none"
    /\ stderr_pipe = << >> /\ written = 0 /\ sigterm = FALSE /\ runner_error = "none"

\* The command-line chat: the shared history and the ask_chat tasks that
\* on_submit creates, one per submitted message.
VARIABLES
    streaming_messages,     \* the global list
    submitted,              \* how many messages the user has submitted
    task_pc,                \* per task: not created, created, awaiting its request, done, failed
    step_n,                 \* per task: the loop variable of ask_chat
    messages,               \* per task: the copy of the history it sent
    new_messages,           \* per task: the history its last request returned
    asked                   \* per task: the requests it has made

chatVars == << streaming_messages, submitted, task_pc, step_n, messages, new_messages,
              asked >>

MaxSubmits == 2    \* most messages the user submits

Tasks == 1 .. MaxSubmits

\* The chat has not been started.
ChatIdle ==
    /\ streaming_messages = << >> /\ submitted = 0
    /\ task_pc = [t \in Tasks |-> "none"]
    /\ step_n = [t \in Tasks |-> 0]
    /\ messages = [t \in Tasks |-> << >>]
    /\ new_messages = [t \in Tasks |-> << >>]
    /\ asked = [t \in Tasks |-> 0]

\* _extract_solution is not being called on its own.
ExtractIdle == call_message = NoResult /\ call_n_solutions = 0 /\ call_result = 0 - 2

\* --------------------------------------------------------------- requests
\* A FunctionDict: the tool's name and the keys of its JSON arguments.
Fn(name, keys) == [name |-> name, arguments |-> keys]

\* ProducePatchStep._tools during _collect_context.
ContextTools == {"definition", "references"}

\* Faulty variant, for comparison: the tool set is not switched before sampling.
PatchToolsNotSwitched == ContextTools

\* ProducePatchStep._tools during _collect_patches.
PatchTools == {"patch"}

\* _tools of Locate, ExploreRepoStep and ChooseSolutionStep.
NoTools == {}

\* Step._query: one call of ask_using_http with n = 1.  `tool_calls` are the
\* tool calls of the last message sent, `tools_turn_on` is self._tools.
QueryRequest(last_role, tool_calls, deterministic, tools, via, functions) ==
    [n |-> 1, deterministic |-> deterministic, last_role |-> last_role,
     tool_calls |-> tool_calls, tools_turn_on |-> tools, via |-> via,
     functions |-> functions]

\* Faulty variant, for comparison: one request per wanted choice.
OneRequestPerChoice(n, tools) ==
    [i \in 1 .. n |->
        [n |-> 1, deterministic |-> FALSE, last_role |-> "tool",
         tool_calls |-> << >>, tools_turn_on |-> tools, via |-> "query_choices",
         functions |-> << >>]]

\* Step._query_choices: the requests it makes for n choices.
QueryChoicesRequests(n, tools) ==
    << [n |-> n, deterministic |-> FALSE, last_role |-> "tool",
        tool_calls |-> << >>, tools_turn_on |-> tools, via |-> "query_choices",
        functions |-> << >>] >>

\* Faulty variant, for comparison: the tool calls are collected in reverse.
ToolCallsReversed(functions) ==
    [i \in 1 .. Len(functions) |-> functions[Len(functions) + 1 - i]]

\* _deterministic_tool_call_messages: the function of each ToolCallDict built.
ToolCalls(functions) == [i \in 1 .. Len(functions) |-> functions[i]]

\* _deterministic_tool_call_messages: the request it makes for `functions`.
DeterministicToolCallRequest(functions, tools) ==
    QueryRequest("assistant", ToolCalls(functions), TRUE, tools,
                 "deterministic_tool_call_messages", functions)

\* function.arguments of a sampled tool call: a JSON text with one path and
\* a plan ("ok"), one without a `paths` key, one with several paths, one
\* without a plan, or a text json.loads rejects.
SampleArguments == {"ok", "no_paths", "many_paths", "no_todo", "bad_json"}

\* The tool calls a sampled assistant message can carry.
SampleFunctions == [name : {"patch", "definition"}, arguments : SampleArguments]

\* The keys of the arguments as _patch writes them back: `todo` is set, and
\* `paths` is there when the sample had it.
ArgumentKeys(arguments) ==
    IF arguments = "no_paths" THEN {"todo"} ELSE {"paths", "todo"}

\* A tool call of the message as the request carries it.
SentCall(f) == Fn(f.name, ArgumentKeys(f.arguments))

\* Faulty variant, for comparison: the tool calls of the sample are all kept.
PatchToolCallsAll(tool_calls) == tool_calls

\* message.tool_calls = message.tool_calls[:1]
PatchToolCalls(tool_calls) == SubSeq(tool_calls, 1, 1)

\* _patch: the request of self._query([message], only_deterministic_messages=True).
PatchRequest(tool_calls, tools) ==
    QueryRequest("assistant",
                 [i \in DOMAIN PatchToolCalls(tool_calls) |->
                     SentCall(PatchToolCalls(tool_calls)[i])],
                 TRUE, tools, "query", << >>)

\* The tool calls of a sample that passed the checks of _patch, as the loop
\* of process keeps them: the patch call it was checked for.
CheckedToolCalls == << [name |-> "patch", arguments |-> "ok"] >>

\* The requests of a list, as they are added to the bag of requests made.
Requests(l) ==
    [r \in { l[i] : i \in DOMAIN l } |-> Cardinality({ i \in DOMAIN l : l[i] = r })]

\* ------------------------------------------------------------ diff engine
\* chat_client.diff_apply(chunks, apply=[True]*n): every chunk ends applied.
DiffApply(t, chunks) == t \cup chunks

\* chat_client.diff_apply(chunks, apply=[False]*n): every chunk ends reverted.
DiffRevert(t, chunks) == t \ chunks

\* `git --no-pager diff` in the repository: the text of everything applied.
GitDiff(t) == t

\* set([d["file_name"] for d in formatted_diff])
TouchedFiles(chunks) == { FileOf(c) : c \in chunks }

\* all([await self._lint(filename) for filename in ...]): `verdict` holds
\* `process.returncode == 0` of the flake8 run on each file.
LintAll(files, verdict) == \A f \in files : verdict[f]

\* ---------------------------------------------------------------- Counter
HasKey(cnt, k) == \E i \in DOMAIN cnt : cnt[i].p = k

CounterGet(cnt, k) ==
    IF HasKey(cnt, k) THEN cnt[CHOOSE i \in DOMAIN cnt : cnt[i].p = k].c ELSE 0

\* dict[k] = v : overwrite in place, or insert at the end.
DictSet(d, k, v) ==
    IF HasKey(d, k)
    THEN [i \in DOMAIN d |-> IF d[i].p = k THEN [p |-> k, c |-> v] ELSE d[i]]
    ELSE Append(d, [p |-> k, c |-> v])

\* Faulty variant, for comparison: every vote starts an entry of its own.
CounterAddAppend(cnt, e) == Append(cnt, e)

\* Counter.update for one key: counts add up.
CounterAdd(cnt, e) ==
    IF HasKey(cnt, e.p)
    THEN [i \in DOMAIN cnt |->
            IF cnt[i].p = e.p THEN [p |-> e.p, c |-> cnt[i].c + e.c] ELSE cnt[i]]
    ELSE Append(cnt, e)

RECURSIVE CounterUpdate(_, _)
CounterUpdate(cnt, mp) ==
    IF mp = << >> THEN cnt
    ELSE CounterUpdate(CounterAdd(cnt, Head(mp)), Tail(mp))

\* Faulty variant, for comparison: the entries are counted instead of their votes.
CounterEntries(cnt) == Len(cnt)

\* sum(model_patches_counter.values())
RECURSIVE CounterTotal(_)
CounterTotal(cnt) ==
    IF cnt = << >> THEN 0 ELSE Head(cnt).c + CounterTotal(Tail(cnt))

\* Faulty variant, for comparison: the lint verdict is not looked at.
EligibleWithoutLint(r) == r.model_patch # {}

\* `if result_info["is_linted"] and model_patch`
Eligible(r) == r.is_linted /\ r.model_patch # {}

\* Counter({model_patch: count for ... if result_info["is_linted"] and model_patch})
RECURSIVE ModelPatches(_)
ModelPatches(rs) ==
    IF rs = << >> THEN << >>
    ELSE LET d == ModelPatches(SubSeq(rs, 1, Len(rs) - 1))
             r == rs[Len(rs)]
         IN  IF Eligible(r)
             THEN DictSet(d, r.model_patch, r.count)
             ELSE d

\* Counter.most_common(): stable sort by descending count.
RECURSIVE InsertByCount(_, _)
InsertByCount(s, e) ==
    IF s = << >> THEN << e >>
    ELSE IF Head(s).c >= e.c THEN << Head(s) >> \o InsertByCount(Tail(s), e)
         ELSE << e >> \o s

\* Faulty variant, for comparison: the entries are returned in insertion order.
MostCommonUnsorted(cnt) == cnt

RECURSIVE MostCommon(_)
MostCommon(cnt) ==
    IF cnt = << >> THEN << >>
    ELSE InsertByCount(MostCommon(SubSeq(cnt, 1, Len(cnt) - 1)), cnt[Len(cnt)])

\* [(p, cnt / sum(counter.values())) for p, cnt in counter.most_common()]
\* A share is kept as the fraction num / den.
ModelPatchesWithScores(cnt) ==
    LET mc == MostCommon(cnt)
    IN  [i \in DOMAIN mc |->
            [p |-> mc[i].p, num |-> mc[i].c, den |-> CounterTotal(cnt)]]

\* Faulty variant, for comparison: the loop is left one accepted attempt too late, or too early.
CapReachedLate(n) == n = SuccessCap + 1
CapReachedEarly(n) == n = SuccessCap - 1

\* `if patch_count == 3: break`
CapReached(n) == n = SuccessCap

\* Faulty variant, for comparison: the clause takes only the failures local to a sample, or none.
CaughtLocalOnly(e) == e \in LocalErrors
CaughtNothing(e) == FALSE

\* `except Exception`: the clause catches every exception class and the loop goes on.
Caught(e) == TRUE

\* ------------------------------------------------------------------- Init
Init ==
    /\ pc = "start"
    /\ patch_choices \in 1 .. MaxChoices
    /\ tree = {}
    /\ active_tools = {}
    /\ trajectory = EmptyBag
    /\ idx = 0
    /\ sample = "none"
    /\ patch_count = 0
    /\ model_patches_counter = << >>
    /\ patch_tool_messages = 0
    /\ results = << >>
    /\ formatted_diff = NoDiff
    /\ result = {}
    /\ is_linted = FALSE
    /\ exc = NoError
    /\ tree_before = {}
    /\ output = << >>
    /\ batch = << >>
    /\ order = << >>
    /\ scores = << >>
    /\ scores_permuted = << >>
    /\ bpc = "idle"
    /\ OtherStepsIdle
    /\ ExtractIdle /\ PatchCallIdle /\ RunnerIdle /\ ChatIdle

\* ---------------------------------------------------------------- actions
attemptLocals == << sample, patch_tool_messages, results, formatted_diff, result,
                   is_linted, tree_before >>

ClearAttempt ==
    /\ sample' = "none"
    /\ patch_tool_messages' = 0
    /\ results' = << >>
    /\ formatted_diff' = NoDiff
    /\ result' = {}
    /\ is_linted' = FALSE
    /\ tree_before' = {}

\* An exception leaves _patch: control goes to the except clause of the loop.
Raise(e) ==
    /\ exc' = [kind |-> e, stage |-> pc]
    /\ pc' = "except"
    /\ ClearAttempt

\* process -> _collect_context: the deterministic files_skeleton call.
CollectContext ==
    /\ pc = "start"
    /\ active_tools' = ContextTools
    /\ \/ /\ trajectory' = trajectory (+) SetToBag({"messages"})
          /\ pc' = "context"
          /\ exc' = exc
       \/ /\ trajectory' = trajectory
          /\ pc' = "raised"
          /\ exc' = [kind |-> TransportError, stage |-> pc]
    /\ UNCHANGED << patch_choices, tree, tree_before, idx, patch_count,
                    model_patches_counter, attemptLocals, output >>
    /\ sent' = sent (+)
           Requests(<< DeterministicToolCallRequest(<< Fn("files_skeleton", {"paths"}) >>, ContextTools) >>)
    /\ UNCHANGED << batchVars, otherSteps, extractVars, patchCallVars, runnerVars, chatVars >>

\* _collect_patches up to the answer of _query_choices.
QueryChoices ==
    /\ pc = "context"
    /\ active_tools' = PatchTools
    /\ \/ /\ pc' = "loop"
          /\ exc' = exc
       \/ /\ pc' = "raised"
          /\ exc' = [kind |-> TransportError, stage |-> pc]
    /\ UNCHANGED << patch_choices, tree, tree_before, trajectory, idx, patch_count,
                    model_patches_counter, attemptLocals, output >>
    /\ sent' = sent (+)
           Requests(QueryChoicesRequests(patch_choices, PatchTools))
    /\ UNCHANGED << batchVars, otherSteps, extractVars, patchCallVars, runnerVars, chatVars >>

\* Faulty variant, for comparison: the loop does not move on to the next sample.
NextChoiceSameSample ==
    /\ pc = "loop"
    /\ idx < patch_choices
    /\ idx' = idx
    /\ sample' \in SampleShapes
    /\ trajectory' = trajectory (+) SetToBag({"block", "messages"})
    /\ pc' = "patch"
    /\ UNCHANGED << patch_choices, tree, active_tools, patch_count,
                    model_patches_counter, patch_tool_messages,
                    results, formatted_diff, result, is_linted, tree_before, exc,
                    output >>
    /\ UNCHANGED sent
    /\ UNCHANGED << batchVars, otherSteps, extractVars, patchCallVars, runnerVars, chatVars >>

\* The for loop takes the next sample and prints it to the trajectory.
NextChoice ==
    /\ pc = "loop"
    /\ idx < patch_choices
    /\ idx' = idx + 1
    /\ sample' \in SampleShapes
    /\ trajectory' = trajectory (+) SetToBag({"block", "messages"})
    /\ pc' = "patch"
    /\ UNCHANGED << patch_choices, tree, active_tools, patch_count,
                    model_patches_counter, patch_tool_messages,
                    results, formatted_diff, result, is_linted, tree_before, exc,
                    output >>
    /\ UNCHANGED sent
    /\ UNCHANGED << batchVars, otherSteps, extractVars, patchCallVars, runnerVars, chatVars >>

\* _patch, lines 98-105: the exception the checks raise for a sample, if any.
PatchChecks(shape) ==
    IF shape = "no_tool_call" THEN ParseError
    ELSE IF shape = "not_patch" THEN ValidationError
    ELSE IF shape = "bad_json" THEN ParseError
    ELSE IF NumPathParts(shape) # 1 THEN ValidationError
    ELSE IF shape = "no_todo" THEN ValidationError
    ELSE "none"

\* _patch, the checks before the deterministic call.
Validate ==
    /\ pc = "patch"
    /\ IF PatchChecks(sample) # "none"
       THEN Raise(PatchChecks(sample)) /\ trajectory' = trajectory
       ELSE /\ trajectory' = trajectory (+) SetToBag({"messages"})
            /\ pc' = "query"
            /\ sample' = "checked"
            /\ UNCHANGED << exc, patch_tool_messages, results, formatted_diff,
                            result, is_linted, tree_before >>
    /\ UNCHANGED << patch_choices, tree, active_tools, idx, patch_count,
                    model_patches_counter, output >>
    /\ UNCHANGED sent
    /\ UNCHANGED << batchVars, otherSteps, extractVars, patchCallVars, runnerVars, chatVars >>

\* _patch: self._query([message], only_deterministic_messages=True).
QueryPatch ==
    /\ pc = "query"
    /\ \/ /\ patch_tool_messages' \in 0 .. MaxMsgs
          /\ trajectory' = trajectory (+) SetToBag({"messages"})
          /\ results' = << >>
          /\ pc' = "messages"
          /\ UNCHANGED << exc, sample, formatted_diff, result, is_linted, tree_before >>
       \/ /\ Raise(TransportError)
          /\ trajectory' = trajectory
    /\ UNCHANGED << patch_choices, tree, active_tools, idx, patch_count,
                    model_patches_counter, output >>
    /\ sent' = sent (+)
           Requests(<< PatchRequest(CheckedToolCalls, active_tools) >>)
    /\ UNCHANGED << batchVars, otherSteps, extractVars, patchCallVars, runnerVars, chatVars >>

\* _patch: `for message in patch_tool_messages`, up to json.loads of a diff.
\* The content of a returned message is drawn when the loop reaches it.
NextMessage ==
    /\ pc = "messages"
    /\ patch_tool_messages > 0
    /\ \E m \in PatchToolMessages :
           IF m.role # "diff"
           THEN /\ patch_tool_messages' = patch_tool_messages - 1
                /\ UNCHANGED << pc, exc, sample, results, formatted_diff, result,
                                is_linted, tree_before >>
           ELSE IF ~ m.ok
           THEN Raise(ParseError)
           ELSE /\ patch_tool_messages' = patch_tool_messages - 1
                /\ formatted_diff' = m
                /\ pc' = "apply"
                /\ UNCHANGED << exc, sample, results, result, is_linted, tree_before >>
    /\ UNCHANGED << patch_choices, tree, active_tools, trajectory,
                    idx, patch_count, model_patches_counter, output >>
    /\ UNCHANGED sent
    /\ UNCHANGED << batchVars, otherSteps, extractVars, patchCallVars, runnerVars, chatVars >>

\* _patch_generate: diff_apply(..., apply=[True] * n).
ApplyDiff ==
    /\ pc = "apply"
    /\ \/ /\ tree' = DiffApply(tree, formatted_diff.chunks)
          /\ tree_before' = tree
          /\ pc' = "git_diff"
          /\ UNCHANGED << exc, sample, patch_tool_messages, results, formatted_diff,
                          result, is_linted >>
       \/ /\ \E part \in SUBSET formatted_diff.chunks : tree' = DiffApply(tree, part)
          /\ Raise(ExternalError)
    /\ UNCHANGED << patch_choices, active_tools, trajectory, idx,
                    patch_count, model_patches_counter, output >>
    /\ UNCHANGED sent
    /\ UNCHANGED << batchVars, otherSteps, extractVars, patchCallVars, runnerVars, chatVars >>

\* _patch_generate: subprocess.check_output(["git", "--no-pager", "diff"]).
CaptureDiff ==
    /\ pc = "git_diff"
    /\ \/ /\ result' = GitDiff(tree)
          /\ pc' = "lint"
          /\ UNCHANGED << exc, sample, patch_tool_messages, results, formatted_diff,
                          is_linted, tree_before >>
       \/ Raise(ExternalError)
    /\ UNCHANGED << patch_choices, tree, active_tools, trajectory,
                    idx, patch_count, model_patches_counter, output >>
    /\ UNCHANGED sent
    /\ UNCHANGED << batchVars, otherSteps, extractVars, patchCallVars, runnerVars, chatVars >>

\* _patch_generate: flake8 over every file the diff touches.
LintDiff ==
    /\ pc = "lint"
    /\ \/ /\ \E verdict \in [TouchedFiles(formatted_diff.chunks) -> BOOLEAN] :
                is_linted' = LintAll(TouchedFiles(formatted_diff.chunks), verdict)
          /\ pc' = "revert"
          /\ UNCHANGED << exc, sample, patch_tool_messages, results, formatted_diff,
                          result, tree_before >>
       \/ Raise(ExternalError)
    /\ UNCHANGED << patch_choices, tree, active_tools, trajectory,
                    idx, patch_count, model_patches_counter, output >>
    /\ UNCHANGED sent
    /\ UNCHANGED << batchVars, otherSteps, extractVars, patchCallVars, runnerVars, chatVars >>

\* Faulty variant, for comparison: the result is returned without the revert.
RevertDiffSkipped ==
    /\ pc = "revert"
    /\ results' = Append(results, [model_patch |-> result,
                                   count |-> formatted_diff.count,
                                   is_linted |-> is_linted])
    /\ formatted_diff' = NoDiff
    /\ result' = {}
    /\ is_linted' = FALSE
    /\ tree_before' = {}
    /\ pc' = "messages"
    /\ UNCHANGED << exc, sample, patch_tool_messages, tree >>
    /\ UNCHANGED << patch_choices, active_tools, trajectory, idx,
                    patch_count, model_patches_counter, output >>
    /\ UNCHANGED sent
    /\ UNCHANGED << batchVars, otherSteps, extractVars, patchCallVars, runnerVars, chatVars >>

\* _patch_generate: diff_apply(..., apply=[False] * n), then the return.
RevertDiff ==
    /\ pc = "revert"
    /\ \/ /\ tree' = DiffRevert(tree, formatted_diff.chunks)
          /\ results' = Append(results, [model_patch |-> result,
                                         count |-> formatted_diff.count,
                                         is_linted |-> is_linted])
          /\ formatted_diff' = NoDiff
          /\ result' = {}
          /\ is_linted' = FALSE
          /\ tree_before' = {}
          /\ pc' = "messages"
          /\ UNCHANGED << exc, sample, patch_tool_messages >>
       \/ /\ \E part \in SUBSET formatted_diff.chunks : tree' = DiffRevert(tree, part)
          /\ Raise(ExternalError)
    /\ UNCHANGED << patch_choices, active_tools, trajectory, idx,
                    patch_count, model_patches_counter, output >>
    /\ UNCHANGED sent
    /\ UNCHANGED << batchVars, otherSteps, extractVars, patchCallVars, runnerVars, chatVars >>

\* _patch: the Counter of eligible results; then the loop body after _patch.
CountAttempt ==
    /\ pc = "messages"
    /\ patch_tool_messages = 0
    /\ LET model_patches == ModelPatches(results)
       IN  IF model_patches = << >>
           THEN /\ Raise(NotFoundError)
                /\ UNCHANGED << patch_count, model_patches_counter >>
           ELSE /\ model_patches_counter' =
                        CounterUpdate(model_patches_counter, model_patches)
                /\ patch_count' = patch_count + 1
                /\ pc' = IF CapReached(patch_count + 1) THEN "finish" ELSE "loop"
                /\ ClearAttempt
                /\ exc' = exc
    /\ UNCHANGED << patch_choices, tree, active_tools, trajectory,
                    idx, output >>
    /\ UNCHANGED sent
    /\ UNCHANGED << batchVars, otherSteps, extractVars, patchCallVars, runnerVars, chatVars >>

\* `except Exception as e: self._trajectory.append(print_exception(e))`.
HandleException ==
    /\ pc = "except"
    /\ IF Caught(exc.kind)
       THEN /\ trajectory' = trajectory (+) SetToBag({"exception"})
            /\ exc' = NoError
            /\ pc' = "loop"
       ELSE /\ pc' = "raised"
            /\ UNCHANGED << trajectory, exc >>
    /\ UNCHANGED << patch_choices, tree, active_tools, idx, patch_count,
                    model_patches_counter, attemptLocals, output >>
    /\ UNCHANGED sent
    /\ UNCHANGED << batchVars, otherSteps, extractVars, patchCallVars, runnerVars, chatVars >>

\* Faulty variant, for comparison: a batch without an accepted sample is an error.
ReturnScoresOrRaise ==
    /\ \/ pc = "finish"
       \/ pc = "loop" /\ idx = patch_choices
    /\ IF model_patches_counter = << >>
       THEN /\ pc' = "raised"
            /\ exc' = [kind |-> NotFoundError, stage |-> pc]
            /\ output' = output
       ELSE /\ output' = ModelPatchesWithScores(model_patches_counter)
            /\ pc' = "done"
            /\ exc' = exc
    /\ UNCHANGED << patch_choices, tree, active_tools, trajectory,
                    idx, patch_count, model_patches_counter, attemptLocals >>
    /\ UNCHANGED sent
    /\ UNCHANGED << batchVars, otherSteps, extractVars, patchCallVars, runnerVars, chatVars >>

\* The scores are computed and process returns.
ReturnScores ==
    /\ \/ pc = "finish"
       \/ pc = "loop" /\ idx = patch_choices
    /\ output' = ModelPatchesWithScores(model_patches_counter)
    /\ pc' = "done"
    /\ UNCHANGED << patch_choices, tree, active_tools, trajectory,
                    idx, patch_count, model_patches_counter, attemptLocals, exc >>
    /\ UNCHANGED sent
    /\ UNCHANGED << batchVars, otherSteps, extractVars, patchCallVars, runnerVars, chatVars >>

Next ==
    \/ CollectContext
    \/ QueryChoices
    \/ NextChoice
    \/ Validate
    \/ QueryPatch
    \/ NextMessage
    \/ ApplyDiff
    \/ CaptureDiff
    \/ LintDiff
    \/ RevertDiff
    \/ CountAttempt
    \/ HandleException
    \/ ReturnScores

vars == << stepVars, batchVars, otherSteps, sent, extractVars, patchCallVars, runnerVars, chatVars >>

Spec == Init /\ [][Next]_vars

\* ------------------------------------------------- the loop as a function
\* What _patch does for one sample: it raises (<< >>), or it returns the
\* Counter of one eligible diff text.
BatchOutcomes ==
    { << >> } \cup
    { << [p |-> t, c |-> k] >> : t \in (SUBSET Chunks) \ { {} }, k \in 1 .. MaxCount }

\* The for loop of _collect_patches over the outcomes of a batch.
RECURSIVE CollectLoop(_, _, _)
CollectLoop(outcomes, cnt, n) ==
    IF outcomes = << >> THEN cnt
    ELSE LET model_patches == Head(outcomes)
         IN  IF model_patches = << >>
             THEN CollectLoop(Tail(outcomes), cnt, n)
             ELSE IF CapReached(n + 1)
                  THEN CounterUpdate(cnt, model_patches)
                  ELSE CollectLoop(Tail(outcomes), CounterUpdate(cnt, model_patches), n + 1)

\* _collect_patches for a batch whose samples have the given outcomes.
CollectPatches(outcomes) == ModelPatchesWithScores(CollectLoop(outcomes, << >>, 0))

Permuted(b, o) == [i \in DOMAIN b |-> b[o[i]]]

BatchInit ==
    /\ pc = "start" /\ tree = {} /\ active_tools = {} /\ trajectory = EmptyBag
    /\ patch_choices \in 1 .. MaxChoices
    /\ idx = 0 /\ sample = "none" /\ patch_count = 0
    /\ model_patches_counter = << >> /\ patch_tool_messages = 0
    /\ results = << >> /\ formatted_diff = NoDiff /\ result = {}
    /\ is_linted = FALSE /\ exc = NoError /\ tree_before = {} /\ output = << >>
    /\ batch \in [1 .. patch_choices -> BatchOutcomes]
    /\ order \in Permutations(1 .. patch_choices)
    /\ scores = << >>
    /\ scores_permuted = << >>
    /\ bpc = "batch"
    /\ OtherStepsIdle
    /\ ExtractIdle /\ PatchCallIdle /\ RunnerIdle /\ ChatIdle

\* The batch is processed in the order it arrived.
CollectInOrder ==
    /\ bpc = "batch"
    /\ OtherStepsIdle
    /\ scores' = CollectPatches(batch)
    /\ bpc' = "permuted"
    /\ UNCHANGED << stepVars, otherSteps, sent, extractVars, patchCallVars, runnerVars, chatVars, batch, order, scores_permuted >>

\* The same samples are processed in the rearranged order.
CollectPermuted ==
    /\ bpc = "permuted"
    /\ scores_permuted' = CollectPatches(Permuted(batch, order))
    /\ bpc' = "compared"
    /\ UNCHANGED << stepVars, otherSteps, sent, extractVars, patchCallVars, runnerVars, chatVars, batch, order, scores >>

BatchNext == CollectInOrder \/ CollectPermuted

SpecBatch == BatchInit /\ [][BatchNext]_vars

\* ------------------------------------------------- the other Step subtypes
\* ProducePatchStep is not the instance being run.
PatchStepIdle ==
    /\ pc = "idle" /\ patch_choices = 1 /\ tree = {} /\ active_tools = {}
    /\ trajectory = EmptyBag /\ idx = 0 /\ sample = "none" /\ patch_count = 0
    /\ model_patches_counter = << >> /\ patch_tool_messages = 0
    /\ results = << >> /\ formatted_diff = NoDiff /\ result = {}
    /\ is_linted = FALSE /\ exc = NoError /\ tree_before = {} /\ output = << >>
    /\ batch = << >> /\ order = << >> /\ scores = << >> /\ scores_permuted = << >>
    /\ bpc = "idle"
    /\ sent = EmptyBag

\* m.usage of a returned message: a Usage record, or None.
NoUsage == [is_usage |-> FALSE, completion_tokens |-> 0, prompt_tokens |-> 0,
            total_tokens |-> 0]
MessageUsages ==
    { NoUsage,
      [is_usage |-> TRUE, completion_tokens |-> 1, prompt_tokens |-> 2,
       total_tokens |-> 3] }

\* self._usages.extend([m.usage for m in new_messages]) for n new messages
\* that carry the usage u.
ExtendUsages(us, n, u) == us \o [i \in 1 .. n |-> u]

\* self._trajectory.extend(print_messages(messages)): one entry per message.
PrintMessages(n) == [i \in 1 .. n |-> "message"]

\* What a deterministic tool call can come back with: how many messages, and
\* whether each one has the role "tool".
ToolResponses ==
    { [n |-> 0, tool |-> TRUE], [n |-> 1, tool |-> TRUE],
      [n |-> 1, tool |-> FALSE], [n |-> 2, tool |-> TRUE] }

\* `assert len(tool_messages) == 1 and tool_messages[0].role == "tool"`
SingleToolMessage(r) == r.n = 1 /\ r.tool

\* ----------------------------------------------------- ChooseSolutionStep
Candidates == {"P1", "P2", "P3"}

\* The lists process can be called with: distinct patch texts, in any order.
CandidateLists ==
    UNION { { f \in [1 .. n -> Candidates] : \A i, j \in 1 .. n : i # j => f[i] # f[j] }
            : n \in 0 .. Cardinality(Candidates) }

\* random.shuffle(model_patches): any rearrangement of the list, in place.
Shuffles(l) == { [i \in DOMAIN l |-> l[o[i]]] : o \in Permutations(DOMAIN l) }

\* A line of the text after the last "result" of an answer: one that does not
\* start with "solution", one that does and continues with the integer num,
\* or one that does and continues with something int() rejects.
AnswerLines ==
    { [kind |-> "other", num |-> 0], [kind |-> "junk", num |-> 0] } \cup
    { [kind |-> "solution", num |-> k] : k \in 0 .. Cardinality(Candidates) + 1 }

LineSeqs == UNION { [1 .. n -> AnswerLines] : n \in 0 .. MaxLines }

\* new_messages[-1] of one sampled continuation.
AnswerMessages ==
    { [role |-> "assistant", is_str |-> TRUE, lines |-> l] : l \in LineSeqs } \cup
    { [role |-> "tool", is_str |-> TRUE, lines |-> << >>],
      [role |-> "assistant", is_str |-> FALSE, lines |-> << >>] }

\* _extract_solution raised.
NoVerdict == 0 - 1

\* The for loop of _extract_solution over the lines.
RECURSIVE ScanLines(_, _)
ScanLines(lines, n_solutions) ==
    IF lines = << >> THEN NoVerdict
    ELSE LET line == Head(lines)
         IN  IF line.kind = "other" THEN ScanLines(Tail(lines), n_solutions)
             ELSE IF line.kind = "junk" THEN NoVerdict
             ELSE IF 0 <= line.num - 1 /\ line.num - 1 < n_solutions
                  THEN line.num - 1
                  ELSE ScanLines(Tail(lines), n_solutions)

\* Faulty variant, for comparison: the range of the index is not looked at.
ExtractSolutionUnchecked(message, n_solutions) ==
    IF message.role = "assistant" /\ message.is_str /\ message.lines # << >>
       /\ message.lines[1].kind = "solution"
    THEN message.lines[1].num - 1
    ELSE ScanLines(message.lines, n_solutions)

\* _extract_solution: the 0-based index, or NoVerdict when it raises.
ExtractSolution(message, n_solutions) ==
    IF message.role # "assistant" THEN NoVerdict
    ELSE IF ~ message.is_str THEN NoVerdict
    ELSE ScanLines(message.lines, n_solutions)

\* _extract_solution has not been called / has not returned yet.
NotCalled == 0 - 2

\* message.content.lower() as the parts its "result" markers cut it into, each
\* part as its lines: a content without the marker, or one with a marker that
\* has nothing or an earlier verdict before it.
ScanSeqs == UNION { [1 .. n -> AnswerLines] : n \in 0 .. MaxScan }
EarlierTexts == { << >>, << [kind |-> "solution", num |-> 1] >> }
Contents ==
    { << l >> : l \in ScanSeqs } \cup { << k, l >> : k \in EarlierTexts, l \in ScanSeqs }

\* The messages _extract_solution is called with.
ExtractMessages ==
    { [role |-> "assistant", is_str |-> TRUE, parts |-> c] : c \in Contents } \cup
    { [role |-> "tool", is_str |-> TRUE, parts |-> << << >> >>],
      [role |-> "assistant", is_str |-> FALSE, parts |-> << << >> >>] }

\* message.content.lower().split("result")[-1]
ResultText(parts) == parts[Len(parts)]

\* _extract_solution is called once, with any message and any n_solutions.
ExtractInit ==
    /\ PatchStepIdle /\ OtherStepsIdle /\ PatchCallIdle /\ RunnerIdle /\ ChatIdle
    /\ call_message \in ExtractMessages
    /\ call_n_solutions \in 0 .. Cardinality(Candidates)
    /\ call_result = NotCalled

ExtractCall ==
    /\ call_result = NotCalled
    /\ call_result' =
           ExtractSolution([role |-> call_message.role,
                            is_str |-> call_message.is_str,
                            lines |-> ResultText(call_message.parts)],
                           call_n_solutions)
    /\ UNCHANGED << call_message, call_n_solutions, stepVars, batchVars,
                    otherSteps, sent, patchCallVars, runnerVars, chatVars >>

ExtractNext == ExtractCall

SpecExtract == ExtractInit /\ [][ExtractNext]_vars

\* ------------------------------------------------------ _patch on its own
MaxCalls == 2      \* most tool calls of a sampled message

\* The tool_calls of new_messages[-1].
SampleToolCallLists == UNION { [1 .. n -> SampleFunctions] : n \in 0 .. MaxCalls }

\* The shape of a sample, as the checks of _patch see it: they look at the
\* first tool call only, at its name first.
ShapeOf(tool_calls) ==
    IF tool_calls = << >> THEN "no_tool_call"
    ELSE IF tool_calls[1].name # "patch" THEN "not_patch"
    ELSE tool_calls[1].arguments

\* _patch is called once, with any sampled message.
PatchCallInit ==
    /\ PatchStepIdle /\ OtherStepsIdle /\ ExtractIdle /\ RunnerIdle /\ ChatIdle
    /\ patch_call_message \in SampleToolCallLists
    /\ patch_call_tool_calls = patch_call_message
    /\ patch_call_outcome = NoResult

\* _patch, lines 98-115: the checks, the truncation and the request.
PatchCall ==
    /\ patch_call_outcome = NoResult
    /\ IF PatchChecks(ShapeOf(patch_call_tool_calls)) # "none"
       THEN /\ patch_call_outcome' = PatchChecks(ShapeOf(patch_call_tool_calls))
            /\ patch_call_tool_calls' = patch_call_tool_calls
            /\ sent' = sent
       ELSE /\ patch_call_outcome' = "sent"
            /\ patch_call_tool_calls' = PatchToolCalls(patch_call_tool_calls)
            /\ sent' = sent (+)
                   Requests(<< PatchRequest(patch_call_tool_calls, PatchTools) >>)
    /\ UNCHANGED << patch_call_message, stepVars, batchVars, otherSteps, extractVars,
                    runnerVars, chatVars >>

PatchCallNext == PatchCall

SpecPatchCall == PatchCallInit /\ [][PatchCallNext]_vars

\* -------------------------------------------------------- LSPServerRunner
MaxOut == 2        \* most lines the server writes to stderr

\* A line of the server's stderr: one that contains "AST COMPLETE" or one that
\* does not; readline returns the empty line at the end of the stream.
StderrLines == {"ast", "other"}
EndOfStream == ""

\* "AST COMPLETE" in stderr.decode()
HasAstComplete(line) == line = "ast"

\* Faulty variant, for comparison: a process object counts as a running server.
IsLspServerRunningIgnoresExit == lsp_server # "None"

\* _is_lsp_server_running
IsLspServerRunning == lsp_server # "None" /\ returncode = "None"

\* LSPServerRunner(repo_path) has been constructed; nothing is started.
RunnerInit ==
    /\ PatchStepIdle /\ OtherStepsIdle /\ ExtractIdle /\ PatchCallIdle /\ ChatIdle
    /\ rpc = "new" /\ lsp_server = "None" /\ returncode = "None" /\ server = "none"
    /\ stderr_pipe = << >> /\ written = 0 /\ sigterm = FALSE /\ runner_error = "none"

runnerFrame == << stepVars, batchVars, otherSteps, sent, extractVars, patchCallVars,
                 chatVars >>

\* __aenter__ -> _start: create_subprocess_exec starts the server, or fails.
RunnerStart ==
    /\ rpc = "new"
    /\ \/ /\ lsp_server' = "Process"
          /\ server' = "running"
          /\ rpc' = "reading"
          /\ runner_error' = runner_error
       \/ /\ rpc' = "start_raised"
          /\ runner_error' = "OSError"
          /\ UNCHANGED << lsp_server, server >>
    /\ UNCHANGED << returncode, stderr_pipe, written, sigterm, runnerFrame >>

\* _start, one turn of the loop from the return of readline to the sleep: the
\* next line, or the empty line once the server has exited and all was read.
RunnerRead ==
    /\ rpc = "reading"
    /\ stderr_pipe # << >> \/ server = "exited"
    /\ LET line == IF stderr_pipe # << >> THEN Head(stderr_pipe) ELSE EndOfStream
       IN  /\ stderr_pipe' = IF stderr_pipe # << >> THEN Tail(stderr_pipe) ELSE << >>
           /\ IF HasAstComplete(line)
              THEN IF IsLspServerRunning
                   THEN rpc' = "body" /\ runner_error' = runner_error
                   ELSE rpc' = "start_raised" /\ runner_error' = "AssertionError"
              ELSE IF ~ IsLspServerRunning
                   THEN rpc' = "start_raised" /\ runner_error' = "RuntimeError"
                   ELSE rpc' = "sleeping" /\ runner_error' = runner_error
    /\ UNCHANGED << lsp_server, returncode, server, written, sigterm, runnerFrame >>

\* await asyncio.sleep(0.01)
RunnerSleep ==
    /\ rpc = "sleeping"
    /\ rpc' = "reading"
    /\ UNCHANGED << lsp_server, returncode, server, stderr_pipe, written, sigterm,
                    runner_error, runnerFrame >>

\* The body of the `async with` block ends, normally or by an exception.
BodyEnds ==
    /\ rpc = "body"
    /\ rpc' = "stopping"
    /\ \E e \in {"none", "BodyError"} : runner_error' = e
    /\ UNCHANGED << lsp_server, returncode, server, stderr_pipe, written, sigterm,
                    runnerFrame >>

\* __aexit__ -> _stop: terminate().  On a child that was reaped already the
\* call does nothing or raises ProcessLookupError.
StopTerminate ==
    /\ rpc = "stopping"
    /\ IF lsp_server = "None"
       THEN rpc' = "left" /\ UNCHANGED << sigterm, runner_error >>
       ELSE IF returncode = "None"
       THEN rpc' = "waiting" /\ sigterm' = TRUE /\ runner_error' = runner_error
       ELSE \/ rpc' = "waiting" /\ UNCHANGED << sigterm, runner_error >>
            \/ rpc' = "left" /\ runner_error' = "ProcessLookupError" /\ sigterm' = sigterm
    /\ UNCHANGED << lsp_server, returncode, server, stderr_pipe, written, runnerFrame >>

\* Faulty variant, for comparison: _stop does not wait for the process.
StopWaitSkipped ==
    /\ rpc = "waiting"
    /\ rpc' = "left"
    /\ runner_error' = IF IsLspServerRunning THEN "AssertionError" ELSE runner_error
    /\ UNCHANGED << lsp_server, returncode, server, stderr_pipe, written, sigterm,
                    runnerFrame >>

\* _stop: `await self._lsp_server.wait()` returns once the child is reaped,
\* then the assert.
StopWait ==
    /\ rpc = "waiting"
    /\ returncode # "None"
    /\ rpc' = "left"
    /\ runner_error' = IF IsLspServerRunning THEN "AssertionError" ELSE runner_error
    /\ UNCHANGED << lsp_server, returncode, server, stderr_pipe, written, sigterm,
                    runnerFrame >>

\* The server writes a line to stderr.
ServerPrints ==
    /\ server = "running"
    /\ written < MaxOut
    /\ \E line \in StderrLines : stderr_pipe' = Append(stderr_pipe, line)
    /\ written' = written + 1
    /\ UNCHANGED << rpc, lsp_server, returncode, server, sigterm, runner_error,
                    runnerFrame >>

\* The server process exits, on its own or on the signal.
ServerExits ==
    /\ server = "running"
    /\ server' = "exited"
    /\ UNCHANGED << rpc, lsp_server, returncode, stderr_pipe, written, sigterm,
                    runner_error, runnerFrame >>

\* The event loop reaps the exited child: returncode is set.
ChildReaped ==
    /\ server = "exited"
    /\ returncode = "None"
    /\ returncode' = "set"
    /\ UNCHANGED << rpc, lsp_server, server, stderr_pipe, written, sigterm,
                    runner_error, runnerFrame >>

RunnerNext ==
    \/ RunnerStart
    \/ RunnerRead
    \/ RunnerSleep
    \/ BodyEnds
    \/ StopTerminate
    \/ StopWait
    \/ ServerPrints
    \/ ServerExits
    \/ ChildReaped

\* The coroutine of the runner goes on whenever it can, and the event loop
\* reaps an exited child; nothing is assumed of the server.
SpecRunner ==
    /\ RunnerInit
    /\ [][RunnerNext]_vars
    /\ WF_vars(RunnerStart) /\ WF_vars(RunnerRead) /\ WF_vars(RunnerSleep)
    /\ WF_vars(StopTerminate) /\ WF_vars(StopWait) /\ WF_vars(ChildReaped)

\* ------------------------------------------------------ command-line chat
MaxSteps == 4      \* refact_cmdline.py:170  `for step_n in range(4)`

\* Message(role="user", content=user_input) of the k-th submitted input.
UserMessage(k) == [role |-> "user", content |-> k, tool_calls |-> FALSE]

\* The messages the endpoint adds to a history: an answer, or an answer that
\* asks for tools.
Answer == [role |-> "assistant", content |-> 0, tool_calls |-> FALSE]
AnswerWithToolCalls == [role |-> "assistant", content |-> 0, tool_calls |-> TRUE]
Responses == { << Answer >>, << AnswerWithToolCalls >> }

\* Faulty variant, for comparison: the loop has no break.
GoesOnAlways(history) == TRUE

\* not `if not streaming_messages[-1].tool_calls: break`
GoesOn(history) == history[Len(history)].tool_calls

\* The chat waits for input with an empty history.
ChatInit ==
    /\ PatchStepIdle /\ OtherStepsIdle /\ ExtractIdle /\ PatchCallIdle /\ RunnerIdle
    /\ ChatIdle

chatFrame == << stepVars, batchVars, otherSteps, sent, extractVars, patchCallVars,
               runnerVars >>

\* on_submit for an input that is neither blank nor exit/quit: the message
\* is appended to the history and a task for ask_chat is created.
OnSubmit ==
    /\ submitted < MaxSubmits
    /\ submitted' = submitted + 1
    /\ streaming_messages' = Append(streaming_messages, UserMessage(submitted + 1))
    /\ task_pc' = [task_pc EXCEPT ![submitted + 1] = "created"]
    /\ UNCHANGED << step_n, messages, new_messages, asked, chatFrame >>

\* ask_chat from its start to the await of the first request.
AskChat(t) ==
    /\ task_pc[t] = "created"
    /\ step_n' = [step_n EXCEPT ![t] = 0]
    /\ messages' = [messages EXCEPT ![t] = streaming_messages]
    /\ asked' = [asked EXCEPT ![t] = asked[t] + 1]
    /\ task_pc' = [task_pc EXCEPT ![t] = "awaiting"]
    /\ UNCHANGED << streaming_messages, submitted, new_messages, chatFrame >>

\* process_streaming_data for a content delta of the request of task t: a
\* new assistant message is started unless the history ends with one.
StreamDelta(t) ==
    /\ task_pc[t] = "awaiting"
    /\ streaming_messages = << >>
          \/ streaming_messages[Len(streaming_messages)].role # "assistant"
    /\ streaming_messages' = Append(streaming_messages, Answer)
    /\ UNCHANGED << submitted, task_pc, step_n, messages, new_messages, asked, chatFrame >>

\* ask_chat from the return of a request to the await of the next one, or to
\* its end: the history is replaced by the one returned.
RequestReturns(t) ==
    /\ task_pc[t] = "awaiting"
    /\ \E new \in Responses :
         LET returned == messages[t] \o new
         IN  /\ new_messages' = [new_messages EXCEPT ![t] = returned]
             /\ streaming_messages' = returned
             /\ IF GoesOn(returned) /\ step_n[t] + 1 < MaxSteps
                THEN /\ step_n' = [step_n EXCEPT ![t] = step_n[t] + 1]
                     /\ messages' = [messages EXCEPT ![t] = returned]
                     /\ asked' = [asked EXCEPT ![t] = asked[t] + 1]
                     /\ task_pc' = task_pc
                ELSE /\ task_pc' = [task_pc EXCEPT ![t] = "done"]
                     /\ UNCHANGED << step_n, messages, asked >>
    /\ UNCHANGED << submitted, chatFrame >>

\* The request of task t fails: the exception ends the task.
RequestFails(t) ==
    /\ task_pc[t] = "awaiting"
    /\ task_pc' = [task_pc EXCEPT ![t] = "failed"]
    /\ UNCHANGED << streaming_messages, submitted, step_n, messages, new_messages,
                    asked, chatFrame >>

ChatNext ==
    \/ OnSubmit
    \/ \E t \in Tasks : AskChat(t)
    \/ \E t \in Tasks : StreamDelta(t)
    \/ \E t \in Tasks : RequestReturns(t)
    \/ \E t \in Tasks : RequestFails(t)

SpecChat == ChatInit /\ [][ChatNext]_vars

\* The last message of a history carries tool calls.
LastHasToolCalls(history) == history # << >> /\ history[Len(history)].tool_calls

\* C36: each ask_chat call makes at least one and at most 4 requests, one at a
\* time, and a request after the first is made only with the return of a
\* history whose last message carries tool calls; once the returned history
\* ends with a message without tool calls the call makes no request any more.
C36_RequestsPerCall ==
    /\ [](\A t \in Tasks : asked[t] <= 4)
    /\ [](\A t \in Tasks : task_pc[t] \in {"awaiting", "done", "failed"} => asked[t] >= 1)
    /\ [](\A t \in Tasks : task_pc[t] \in {"none", "created"} => asked[t] = 0)
    /\ [][\A t \in Tasks :
            asked'[t] # asked[t] =>
                /\ asked'[t] = asked[t] + 1
                /\ task_pc[t] = "created" \/ LastHasToolCalls(new_messages'[t])]_vars
    /\ [][\A t \in Tasks :
            (new_messages[t] # << >> /\ ~LastHasToolCalls(new_messages[t])) =>
                /\ asked'[t] = asked[t]
                /\ task_pc[t] = "done" /\ task_pc'[t] = "done"]_vars

\* One call has stopped after its first request and another one has made
\* all its 4 requests, the last of them answered with tool calls again.
C36_Witness ==
    \E t, u \in Tasks :
        /\ task_pc[t] = "done" /\ asked[t] = 1 /\ ~LastHasToolCalls(new_messages[t])
        /\ task_pc[u] = "done" /\ asked[u] = 4 /\ LastHasToolCalls(new_messages[u])

\* C37: when the ask_chat task of every submitted message has completed,
\* every message the user submitted is in streaming_messages.
C37_SubmittedMessagesKept ==
    (\A t \in 1 .. submitted : task_pc[t] = "done") =>
        \A k \in 1 .. submitted :
            \E i \in DOMAIN streaming_messages : streaming_messages[i] = UserMessage(k)

\* Faulty variant, for comparison: a single candidate is arbitrated like any other list.
SoleCandidateNever(l) == FALSE

\* `if len(model_patches) < 2`
SoleCandidate(l) == Len(l) < 2

\* Faulty variant, for comparison: the index with the fewest votes is taken.
LeastCommonIndex(cnt) == MostCommon(cnt)[Len(cnt)].p

\* counter.most_common()[0][0]
MostCommonIndex(cnt) == MostCommon(cnt)[1].p

ChooseInit ==
    /\ PatchStepIdle /\ ExtractIdle /\ PatchCallIdle /\ RunnerIdle /\ ChatIdle
    /\ step = "choose" /\ spc = "start" /\ error = "none"
    /\ choices \in 1 .. MaxChoices
    /\ candidates \in CandidateLists
    /\ passed = candidates
    /\ prompt = << >>
    /\ usages = << >> /\ traj = << >> /\ requests = 0 /\ votes = << >>
    /\ counter = << >> /\ chosen = NoResult
    /\ file_counter = << >> /\ found_files = << >>
    /\ content = NoResult /\ located = NoResult /\ error_payload = NoResult

\* process, the two checks on the length of the list.
ChooseEntry ==
    /\ step = "choose" /\ spc = "start"
    /\ IF candidates = << >>
       THEN /\ error' = "no patches for problem"
            /\ spc' = "raised"
            /\ chosen' = chosen
       ELSE IF SoleCandidate(candidates)
       THEN /\ chosen' = candidates[1]
            /\ spc' = "done"
            /\ error' = error
       ELSE /\ spc' = "shuffle"
            /\ UNCHANGED << chosen, error >>
    /\ UNCHANGED << step, choices, usages, traj, requests, votes, candidates, prompt, passed,
                    counter, exploreVars, locateVars, stepVars, batchVars, extractVars, patchCallVars, runnerVars, chatVars >>
    /\ UNCHANGED sent

\* Faulty variant, for comparison: the labels are counted from zero.
SolutionLabelFromZero(i) == i

\* enumerate(model_patches, start=1): the label of the entry at index i.
SolutionLabel(i) == i + 1

\* The "Solution {idx}:" parts of the user message, in the order of the list;
\* the entry at position i of the sequence has index i - 1.
SolutionParts(l) ==
    [i \in DOMAIN l |-> [label |-> SolutionLabel(i - 1), patch |-> l[i]]]

\* random.shuffle(model_patches); the prompt then names the entry at
\* position idx of the shuffled list "Solution idx".
ChooseShuffle ==
    /\ step = "choose" /\ spc = "shuffle"
    /\ candidates' \in Shuffles(candidates)
    /\ prompt' = SolutionParts(candidates')
    /\ spc' = "context"
    /\ UNCHANGED << step, choices, error, usages, traj, requests, votes, passed,
                    counter, chosen, exploreVars, locateVars, stepVars, batchVars, extractVars, patchCallVars, runnerVars, chatVars >>
    /\ UNCHANGED sent

\* The deterministic files_skeleton call, the assert and the first print.
ChooseContext ==
    /\ step = "choose" /\ spc = "context"
    /\ requests' = requests + 1
    /\ \/ /\ error' = TransportError
          /\ spc' = "raised"
          /\ UNCHANGED << usages, traj >>
       \/ \E r \in ToolResponses, u \in MessageUsages :
            /\ usages' = ExtendUsages(usages, r.n, u)
            /\ IF SingleToolMessage(r)
               THEN /\ traj' = traj \o PrintMessages(4)
                    /\ spc' = "query"
                    /\ error' = error
               ELSE /\ error' = "AssertionError"
                    /\ spc' = "raised"
                    /\ traj' = traj
    /\ UNCHANGED << step, choices, votes, chooseVars, exploreVars, locateVars,
                    stepVars, batchVars, extractVars, patchCallVars, runnerVars, chatVars >>
    /\ sent' = sent (+)
           Requests(<< QueryRequest("assistant", << Fn("files_skeleton", {"paths"}) >>, TRUE, NoTools, "query", << >>) >>)

\* self._query_choices(messages, self._choices)
ChooseQueryChoices ==
    /\ step = "choose" /\ spc = "query"
    /\ requests' = requests + 1
    /\ \/ /\ error' = TransportError
          /\ spc' = "raised"
          /\ usages' = usages
       \/ \E u \in MessageUsages :
            /\ usages' = ExtendUsages(usages, choices, u)
            /\ spc' = "samples"
            /\ error' = error
    /\ UNCHANGED << step, choices, traj, votes, chooseVars, exploreVars, locateVars,
                    stepVars, batchVars, extractVars, patchCallVars, runnerVars, chatVars >>
    /\ sent' = sent (+)
           Requests(QueryChoicesRequests(choices, NoTools))

\* One turn of the for loop: the two prints, then the vote or the bare except.
ChooseSample ==
    /\ step = "choose" /\ spc = "samples"
    /\ Len(votes) < choices
    /\ \E v \in { ExtractSolution(m, Len(candidates)) : m \in AnswerMessages } :
         /\ votes' = Append(votes, v)
         /\ counter' = IF v = NoVerdict THEN counter
                       ELSE CounterAdd(counter, [p |-> v, c |-> 1])
    /\ traj' = traj \o << "block" >> \o PrintMessages(1)
    /\ UNCHANGED << step, spc, choices, error, usages, requests, candidates, prompt, passed,
                    chosen, exploreVars, locateVars, stepVars, batchVars, extractVars, patchCallVars, runnerVars, chatVars >>
    /\ UNCHANGED sent

\* `if not counter: raise ...`, else the entry the winning index names.
ChooseReturn ==
    /\ step = "choose" /\ spc = "samples"
    /\ Len(votes) = choices
    /\ IF counter = << >>
       THEN /\ error' = "can't choose a solution"
            /\ spc' = "raised"
            /\ chosen' = chosen
       ELSE /\ chosen' = candidates[MostCommonIndex(counter) + 1]
            /\ spc' = "done"
            /\ error' = error
    /\ UNCHANGED << step, choices, usages, traj, requests, votes, candidates, prompt, passed,
                    counter, exploreVars, locateVars, stepVars, batchVars, extractVars, patchCallVars, runnerVars, chatVars >>
    /\ UNCHANGED sent

ChooseNext ==
    \/ ChooseEntry
    \/ ChooseShuffle
    \/ ChooseContext
    \/ ChooseQueryChoices
    \/ ChooseSample
    \/ ChooseReturn

SpecChoose == ChooseInit /\ [][ChooseNext]_vars

\* ----------------------------------------------------------------- Locate
\* str(repo_path), and a sibling directory whose name starts with it.
RepoRoot == "/repo"
SiblingRoot == "/repo2"

\* The files that exist under repo_path.
Disk == {"a.py", "b.py"}

\* A file_path the tool can name: `rel` below `root`, or relative (root "").
FilePaths ==
    { [root |-> RepoRoot, rel |-> "a.py"], [root |-> "", rel |-> "a.py"],
      [root |-> "", rel |-> "b.py"], [root |-> RepoRoot, rel |-> "gone.py"],
      [root |-> SiblingRoot, rel |-> "a.py"] }

\* An element of the files list: a record, or something that is not a dict.
FileItems ==
    [is_dict : {TRUE}, file_path : FilePaths, reason : {"to_change", "context"}] \cup
    { [is_dict |-> FALSE, file_path |-> [root |-> "", rel |-> ""], reason |-> ""] }

FileLists == UNION { [1 .. n -> FileItems] : n \in 0 .. MaxFiles }

\* messages[-1].content: text json.loads rejects, JSON that is not an object,
\* or an object with or without the key "files".
LocateContents ==
    { [kind |-> "unparsable", raw |-> r, has_files |-> FALSE, files |-> << >>,
       symbols |-> << >>] : r \in {"not json", "{"} } \cup
    { [kind |-> "not_dict", raw |-> "[]", has_files |-> FALSE, files |-> << >>,
       symbols |-> << >>] } \cup
    { [kind |-> "dict", raw |-> "{...}", has_files |-> h, files |-> f, symbols |-> y] :
        h \in BOOLEAN, f \in FileLists, y \in { << >>, << "f", "f" >> } }

\* results.get("files", {})
FilesList(c) == IF c.has_files THEN c.files ELSE << >>

\* file_path.startswith(str(repo_path)): a comparison of strings.
StartsWithRepoPath(fp) == fp.root \in {RepoRoot, SiblingRoot}

\* Path(file_path).relative_to(repo_path) succeeds below repo_path only.
IsRelativeTo(fp) == fp.root = RepoRoot

\* Faulty variant, for comparison: the existence of the file is not looked at.
ExistsAlways(rel) == TRUE

\* (repo_path / file_path).exists()
Exists(rel) == rel \in Disk

\* list(set(l))
ToSet(l) == { l[i] : i \in DOMAIN l }

\* The for loop over files_list: the two lists, or the exception that ends it.
RECURSIVE CollectFiles(_, _, _)
CollectFiles(files_list, context_files, to_change_files) ==
    IF files_list = << >>
    THEN [raised |-> "none", context_files |-> context_files,
          to_change_files |-> to_change_files]
    ELSE LET info == Head(files_list)
             rest == Tail(files_list)
         IN  IF ~ info.is_dict
             THEN [raised |-> "TypeError", context_files |-> context_files,
                   to_change_files |-> to_change_files]
             ELSE IF StartsWithRepoPath(info.file_path) /\ ~ IsRelativeTo(info.file_path)
             THEN [raised |-> "ValueError", context_files |-> context_files,
                   to_change_files |-> to_change_files]
             ELSE IF ~ Exists(info.file_path.rel)
             THEN CollectFiles(rest, context_files, to_change_files)
             ELSE CollectFiles(rest, Append(context_files, info.file_path.rel),
                               IF info.reason = "to_change"
                               THEN Append(to_change_files, info.file_path.rel)
                               ELSE to_change_files)

\* Faulty variant, for comparison: an empty list is let through.
FilesValidFirstOnly(files_list) ==
    IF files_list # << >> /\ ~ files_list[1].is_dict
    THEN "files list is not a list of dicts" ELSE "none"

\* Faulty variant, for comparison: only an empty list is refused.
FilesValidNonEmpty(files_list) ==
    IF files_list = << >> THEN "no files found" ELSE "none"

\* The two checks on files_list: the error raised, or "none".
FilesValid(files_list) ==
    IF files_list = << >> THEN "no files found"
    ELSE IF ~ files_list[1].is_dict THEN "files list is not a list of dicts"
    ELSE "none"

\* Faulty variant, for comparison: the repository is passed along as well.
LocateFunctionsWithRepo ==
    << Fn("locate", {"problem_statement", "repo_path"}) >>

\* process: the functions handed to _deterministic_tool_call_messages.
LocateFunctions == << Fn("locate", {"problem_statement"}) >>

LocateInit ==
    /\ PatchStepIdle /\ ExtractIdle /\ PatchCallIdle /\ RunnerIdle /\ ChatIdle
    /\ step = "locate" /\ spc = "start" /\ error = "none" /\ choices = 0
    /\ usages = << >> /\ traj = << >> /\ requests = 0 /\ votes = << >>
    /\ candidates = << >> /\ passed = << >> /\ counter = << >> /\ chosen = NoResult
    /\ prompt = << >>
    /\ file_counter = << >> /\ found_files = << >>
    /\ content = NoResult /\ located = NoResult /\ error_payload = NoResult

\* The deterministic locate call and the print of its messages.
LocateCall ==
    /\ step = "locate" /\ spc = "start"
    /\ requests' = requests + 1
    /\ \/ /\ error' = TransportError
          /\ spc' = "raised"
          /\ UNCHANGED << usages, traj, content >>
       \/ \E u \in MessageUsages, c \in LocateContents :
            /\ usages' = ExtendUsages(usages, 1, u)
            /\ traj' = traj \o PrintMessages(2)
            /\ content' = c
            /\ spc' = "parse"
            /\ error' = error
    /\ UNCHANGED << step, choices, votes, located, error_payload, chooseVars,
                    exploreVars, stepVars, batchVars, extractVars, patchCallVars, runnerVars, chatVars >>
    /\ sent' = sent (+)
           Requests(<< DeterministicToolCallRequest(LocateFunctions, NoTools) >>)

\* json.loads of the content and the checks on the files list.
LocateParse ==
    /\ step = "locate" /\ spc = "parse"
    /\ IF content.kind = "unparsable"
       THEN /\ error' = "content is not decodable as json"
            /\ error_payload' = content.raw
            /\ spc' = "raised"
       ELSE IF content.kind = "not_dict"
       THEN /\ error' = "AttributeError"
            /\ error_payload' = error_payload
            /\ spc' = "raised"
       ELSE IF FilesValid(FilesList(content)) # "none"
       THEN /\ error' = FilesValid(FilesList(content))
            /\ error_payload' = error_payload
            /\ spc' = "raised"
       ELSE /\ spc' = "files"
            /\ UNCHANGED << error, error_payload >>
    /\ UNCHANGED << step, choices, usages, traj, requests, votes, content, located,
                    chooseVars, exploreVars, stepVars, batchVars, extractVars, patchCallVars, runnerVars, chatVars >>
    /\ UNCHANGED sent

\* The loop over the files list and the returned record.
LocateReturn ==
    /\ step = "locate" /\ spc = "files"
    /\ LET r == CollectFiles(FilesList(content), << >>, << >>)
       IN  IF r.raised # "none"
           THEN /\ error' = r.raised
                /\ spc' = "raised"
                /\ located' = located
           ELSE /\ located' = [context_files |-> ToSet(r.context_files),
                               context_symbols |-> ToSet(content.symbols),
                               to_change_files |-> ToSet(r.to_change_files)]
                /\ spc' = "done"
                /\ error' = error
    /\ UNCHANGED << step, choices, usages, traj, requests, votes, content,
                    error_payload, chooseVars, exploreVars, stepVars, batchVars, extractVars, patchCallVars, runnerVars, chatVars >>
    /\ UNCHANGED sent

LocateNext ==
    \/ LocateCall
    \/ LocateParse
    \/ LocateReturn

SpecLocate == LocateInit /\ [][LocateNext]_vars

\* -------------------------------------------------------- ExploreRepoStep
\* A path-like piece of text the pattern of _extract_filenames matches.
NamedPath(root, rel) == [root |-> root, rel |-> rel]

\* filename.replace(repo_root.lstrip("/"), "").lstrip("/")
NormalizeName(fp) == fp.rel

\* _extract_filenames without filter_tests: the set of the normalized
\* matches, as a list in some order.
ExtractFilenames(matches) ==
    LET filenames == { NormalizeName(matches[i]) : i \in DOMAIN matches }
    IN  CHOOSE l \in [1 .. Cardinality(filenames) -> filenames] :
            \A f \in filenames : \E i \in DOMAIN l : l[i] = f

\* list(filenames): the elements of the set in any order.
Orderings(l) == Shuffles(l)

\* new_messages[-1] of one sampled continuation, with the matches of the
\* pattern in its text.
ExploreAnswers ==
    { [role |-> "assistant", is_str |-> TRUE, matches |-> t] :
        t \in { << >>,
                << NamedPath("", "a.py"), NamedPath("", "b.py") >>,
                << NamedPath(RepoRoot, "a.py"), NamedPath("", "b.py") >>,
                << NamedPath(RepoRoot, "a.py"), NamedPath("", "a.py") >>,
                << NamedPath("", "c.py"), NamedPath("", "d.py"), NamedPath("", "e.py") >>,
                << NamedPath("", "f.py") >>,
                << NamedPath("", "a.py") >> } } \cup
    { [role |-> "tool", is_str |-> TRUE, matches |-> << NamedPath("", "a.py") >>],
      [role |-> "assistant", is_str |-> FALSE, matches |-> << >>] }

\* _attempt: the files found, or << >> when it raises.
Attempt(message) ==
    IF message.role # "assistant" THEN << >>
    ELSE IF ~ message.is_str THEN << >>
    ELSE ExtractFilenames(message.matches)

\* The keys of a list as Counter.update takes them: one vote each.
OneVoteEach(l) == [i \in DOMAIN l |-> [p |-> l[i], c |-> 1]]

\* Faulty variant, for comparison: the first n entries in insertion order.
FirstInserted(cnt, n) ==
    [i \in 1 .. (IF Len(cnt) < n THEN Len(cnt) ELSE n) |-> cnt[i].p]

\* [k for k, _ in file_counter.most_common(n)]
MostCommonKeys(cnt, n) ==
    LET mc == MostCommon(cnt)
    IN  [i \in 1 .. (IF Len(mc) < n THEN Len(mc) ELSE n) |-> mc[i].p]

\* Faulty variant, for comparison: fewer files than asked for is an error.
TooFewFiles(l) == Len(l) < TopFiles

\* `if not found_files`
NoFiles(l) == l = << >>

ExploreInit ==
    /\ PatchStepIdle /\ ExtractIdle /\ PatchCallIdle /\ RunnerIdle /\ ChatIdle
    /\ step = "explore" /\ spc = "context" /\ error = "none"
    /\ choices \in 1 .. MaxChoices
    /\ usages = << >> /\ traj = << >> /\ requests = 0 /\ votes = << >>
    /\ candidates = << >> /\ passed = << >> /\ counter = << >> /\ chosen = NoResult
    /\ prompt = << >>
    /\ file_counter = << >> /\ found_files = << >>
    /\ content = NoResult /\ located = NoResult /\ error_payload = NoResult

\* The deterministic tree call, the assert and the first print.
ExploreContext ==
    /\ step = "explore" /\ spc = "context"
    /\ requests' = requests + 1
    /\ \/ /\ error' = TransportError
          /\ spc' = "raised"
          /\ UNCHANGED << usages, traj >>
       \/ \E r \in ToolResponses, u \in MessageUsages :
            /\ usages' = ExtendUsages(usages, r.n, u)
            /\ IF SingleToolMessage(r)
               THEN /\ traj' = traj \o PrintMessages(4)
                    /\ spc' = "query"
                    /\ error' = error
               ELSE /\ error' = "AssertionError"
                    /\ spc' = "raised"
                    /\ traj' = traj
    /\ UNCHANGED << step, choices, votes, chooseVars, exploreVars, locateVars,
                    stepVars, batchVars, extractVars, patchCallVars, runnerVars, chatVars >>
    /\ sent' = sent (+)
           Requests(<< QueryRequest("assistant", << Fn("tree", {}) >>, TRUE, NoTools, "query", << >>) >>)

\* self._query_choices(messages, self._choices)
ExploreQueryChoices ==
    /\ step = "explore" /\ spc = "query"
    /\ requests' = requests + 1
    /\ \/ /\ error' = TransportError
          /\ spc' = "raised"
          /\ usages' = usages
       \/ \E u \in MessageUsages :
            /\ usages' = ExtendUsages(usages, choices, u)
            /\ spc' = "samples"
            /\ error' = error
    /\ UNCHANGED << step, choices, traj, votes, chooseVars, exploreVars, locateVars,
                    stepVars, batchVars, extractVars, patchCallVars, runnerVars, chatVars >>
    /\ sent' = sent (+)
           Requests(QueryChoicesRequests(choices, NoTools))

\* One turn of the for loop: the two prints, then the votes or the bare except.
ExploreSample ==
    /\ step = "explore" /\ spc = "samples"
    /\ Len(votes) < choices
    /\ \E m \in ExploreAnswers :
         \E found \in Orderings(Attempt(m)) :
            /\ votes' = Append(votes, ToSet(found))
            /\ file_counter' = CounterUpdate(file_counter, OneVoteEach(found))
    /\ traj' = traj \o << "block" >> \o PrintMessages(1)
    /\ UNCHANGED << step, spc, choices, error, usages, requests, found_files,
                    chooseVars, locateVars, stepVars, batchVars, extractVars, patchCallVars, runnerVars, chatVars >>
    /\ UNCHANGED sent

\* The most common files, or the error when there is none.
ExploreReturn ==
    /\ step = "explore" /\ spc = "samples"
    /\ Len(votes) = choices
    /\ LET found == MostCommonKeys(file_counter, TopFiles)
       IN  IF NoFiles(found)
           THEN /\ error' = "no files found"
                /\ spc' = "raised"
                /\ found_files' = found_files
           ELSE /\ found_files' = found
                /\ spc' = "done"
                /\ error' = error
    /\ UNCHANGED << step, choices, usages, traj, requests, votes, file_counter,
                    chooseVars, locateVars, stepVars, batchVars, extractVars, patchCallVars, runnerVars, chatVars >>
    /\ UNCHANGED sent

ExploreNext ==
    \/ ExploreContext
    \/ ExploreQueryChoices
    \/ ExploreSample
    \/ ExploreReturn

SpecExplore == ExploreInit /\ [][ExploreNext]_vars

\* ------------------------------------------------------------------- Step
\* The usages a request on a bare Step can add: any list of message usages.
StepUsages ==
    MessageUsages \cup
    { [is_usage |-> TRUE, completion_tokens |-> 2, prompt_tokens |-> 0,
       total_tokens |-> 5] }

UsageSeqs == UNION { [1 .. n -> StepUsages] : n \in 0 .. MaxNew }

\* self._usages.extend([m.usage for m in new_messages])
ExtendWith(us, new_usages) == us \o new_usages

\* Faulty variant, for comparison: the total is derived from the other two sums.
UsageTotalFromParts(us) ==
    LET RECURSIVE Go(_, _)
        Go(l, r) ==
            IF l = << >> THEN r
            ELSE Go(Tail(l),
                    IF Head(l).is_usage
                    THEN [completion_tokens |-> r.completion_tokens + Head(l).completion_tokens,
                          prompt_tokens |-> r.prompt_tokens + Head(l).prompt_tokens,
                          total_tokens |-> r.total_tokens + Head(l).completion_tokens
                                             + Head(l).prompt_tokens]
                    ELSE r)
    IN  Go(us, [completion_tokens |-> 0, prompt_tokens |-> 0, total_tokens |-> 0])

\* The loop of the usage property over the records that are Usage instances.
RECURSIVE UsageLoop(_, _)
UsageLoop(us, res) ==
    IF us = << >> THEN res
    ELSE LET u == Head(us)
         IN  UsageLoop(Tail(us),
                 IF u.is_usage
                 THEN [completion_tokens |-> res.completion_tokens + u.completion_tokens,
                       prompt_tokens |-> res.prompt_tokens + u.prompt_tokens,
                       total_tokens |-> res.total_tokens + u.total_tokens]
                 ELSE res)

\* The usage property.
Usage(us) ==
    UsageLoop(us, [completion_tokens |-> 0, prompt_tokens |-> 0, total_tokens |-> 0])

\* The function lists a bare Step's _deterministic_tool_call_messages is
\* called with.
FunctionLists ==
    { << Fn("tree", {}) >>,
      << Fn("tree", {}), Fn("files_skeleton", {"paths"}) >> }

\* What a subtype appends to the trajectory.
TrajectoryEntries == {"message", "block", "exception"}

StepInit ==
    /\ PatchStepIdle /\ ExtractIdle /\ PatchCallIdle /\ RunnerIdle /\ ChatIdle
    /\ step = "base" /\ spc = "ready" /\ error = "none" /\ choices = 0
    /\ usages = << >> /\ traj = << >> /\ requests = 0 /\ votes = << >>
    /\ candidates = << >> /\ passed = << >> /\ counter = << >> /\ chosen = NoResult
    /\ prompt = << >>
    /\ file_counter = << >> /\ found_files = << >>
    /\ content = NoResult /\ located = NoResult /\ error_payload = NoResult

\* _query: the request fails, or the usages of its new messages are recorded.
StepQuery ==
    /\ step = "base" /\ spc = "ready"
    /\ requests < MaxUsages /\ BagCardinality(sent) < MaxSent
    /\ requests' = requests + 1
    /\ \/ /\ error' = TransportError
          /\ usages' = usages
       \/ \E new \in UsageSeqs :
            /\ Len(usages) + Len(new) <= MaxUsages
            /\ usages' = ExtendWith(usages, new)
            /\ error' = "none"
    /\ UNCHANGED << step, spc, choices, traj, votes, chooseVars, exploreVars,
                    locateVars, stepVars, batchVars, extractVars, patchCallVars, runnerVars, chatVars >>
    /\ \E deterministic \in BOOLEAN :
           sent' = sent (+) Requests(<< QueryRequest("user", << >>, deterministic,
                                                    NoTools, "query", << >>) >>)

\* _deterministic_tool_call_messages for a list of functions: the request
\* fails, or the usages of the tool messages are recorded.
StepDeterministicToolCall ==
    /\ step = "base" /\ spc = "ready"
    /\ requests < MaxUsages /\ BagCardinality(sent) < MaxSent
    /\ requests' = requests + 1
    /\ \/ /\ error' = TransportError
          /\ usages' = usages
       \/ \E new \in UsageSeqs :
            /\ Len(usages) + Len(new) <= MaxUsages
            /\ usages' = ExtendWith(usages, new)
            /\ error' = "none"
    /\ UNCHANGED << step, spc, choices, traj, votes, chooseVars, exploreVars,
                    locateVars, stepVars, batchVars, extractVars, patchCallVars, runnerVars, chatVars >>
    /\ \E functions \in FunctionLists :
           sent' = sent (+) Requests(<< DeterministicToolCallRequest(functions, NoTools) >>)

\* _query_choices for two choices: the usages of each choice's new messages
\* are recorded, choice after choice.
StepQueryChoices ==
    /\ step = "base" /\ spc = "ready"
    /\ requests < MaxUsages /\ BagCardinality(sent) < MaxSent
    /\ requests' = requests + 1
    /\ \/ /\ error' = TransportError
          /\ usages' = usages
       \/ \E new1, new2 \in UsageSeqs :
            /\ Len(usages) + Len(new1) + Len(new2) <= MaxUsages
            /\ usages' = ExtendWith(ExtendWith(usages, new1), new2)
            /\ error' = "none"
    /\ UNCHANGED << step, spc, choices, traj, votes, chooseVars, exploreVars,
                    locateVars, stepVars, batchVars, extractVars, patchCallVars, runnerVars, chatVars >>
    /\ sent' = sent (+) Requests(QueryChoicesRequests(2, NoTools))

\* self._trajectory.append(...) / extend(...) as the subtypes call them.
StepPrint ==
    /\ step = "base" /\ spc = "ready"
    /\ Len(traj) < MaxEntries
    /\ \E e \in TrajectoryEntries : traj' = Append(traj, e)
    /\ UNCHANGED << step, spc, choices, error, usages, requests, votes, chooseVars,
                    exploreVars, locateVars, stepVars, batchVars, extractVars, patchCallVars, runnerVars, chatVars >>
    /\ UNCHANGED sent

\* A Step driven directly, or the process of one of the subtypes above.
StepNext ==
    \/ StepQuery
    \/ StepQueryChoices
    \/ StepDeterministicToolCall
    \/ StepPrint
    \/ LocateNext
    \/ ExploreNext
    \/ ChooseNext

SpecStep == (StepInit \/ LocateInit \/ ExploreInit \/ ChooseInit) /\ [][StepNext]_vars

\* ------------------------------------------------------------ any one step
\* One Step instance of one of the four subtypes is created and its process
\* is run, or the request methods of the base class are called directly.
PipelineInit == Init \/ LocateInit \/ ExploreInit \/ ChooseInit \/ StepInit

PipelineNext ==
    \/ Next
    \/ LocateNext
    \/ ExploreNext
    \/ ChooseNext
    \/ StepQuery
    \/ StepQueryChoices
    \/ StepDeterministicToolCall

SpecPipeline == PipelineInit /\ [][PipelineNext]_vars

TypeOK ==
    /\ pc \in {"idle", "start", "context", "loop", "patch", "query", "messages", "apply",
               "git_diff", "lint", "revert", "except", "finish", "done", "raised"}
    /\ tree \subseteq Chunks
    /\ idx \in 0 .. patch_choices
    /\ patch_count \in 0 .. SuccessCap

\* ------------------------------------------------------ reading the state
Texts == SUBSET Chunks

Entries(kind) == CopiesIn(kind, trajectory)

Keys(cnt) == { cnt[i].p : i \in DOMAIN cnt }

RECURSIVE SumNum(_)
SumNum(out) == IF out = << >> THEN 0 ELSE Head(out).num + SumNum(Tail(out))

\* Every sample rejected so far was rejected by _patch's checks, before the
\* tool call was printed: only the context, each sample and the two prints of
\* each accepted attempt are in the trajectory.
OnlyValidationFailures == Entries("messages") = 1 + idx + 2 * patch_count

\* ------------------------------------------------------------------ claims

\* C1: at most 3 attempts are ever accepted, and once the third has been
\* accepted the loop is left: no further sample is validated, sent to the
\* patch tool or applied to the working tree.
C1_CapStopsBatch ==
    /\ patch_count <= SuccessCap
    /\ patch_count = SuccessCap => pc \in {"finish", "done"}

\* A batch that was cut short: three accepted, a sample left untouched.
C1_Witness ==
    /\ pc = "done"
    /\ patch_count = SuccessCap
    /\ idx < patch_choices

\* C2 (as claimed): an attempt that ends because capturing the repository diff
\* or running the linter raised has reverted what it applied, so the working
\* tree is what it was when process was entered.
C2_RevertedOnEveryPath ==
    (pc = "except" /\ exc.stage \in {"git_diff", "lint"}) => tree = {}

\* C3 (as claimed): when apply, diff capture and lint of a diff all complete,
\* the revert leaves the working tree as it was before the diff was applied.
C3_ApplyRevertRoundTrip ==
    [][(pc = "revert" /\ pc' = "messages") => tree' = tree_before]_vars

\* C4 (as claimed): a transport or external-service error raised inside an
\* attempt leaves process at once; the loop's except clause does not take it.
C4_FatalErrorsPropagate ==
    [][(pc = "except" /\ exc.kind \in FatalErrors) => pc' = "raised"]_vars

\* C4 (amended): process is left by an exception only before the first sample
\* is taken (the context call or the sampling request failed); a transport or
\* external-service error raised inside an attempt is caught by the loop's
\* except clause, recorded in the trajectory, and the loop goes on.
C4_FatalErrorsCaughtInAttempt ==
    /\ [](pc = "raised" => (idx = 0 /\ exc.stage \in {"start", "context"}))
    /\ [][(pc = "except" /\ exc.kind \in FatalErrors) =>
            /\ pc' = "loop"
            /\ Entries("exception")' = Entries("exception") + 1
            /\ UNCHANGED << idx, patch_count, model_patches_counter >>]_vars

\* A later sample is being looked at although the patch call of an earlier
\* one failed with a transport error.
C4_Witness ==
    /\ pc = "patch"
    /\ Entries("exception") = 1
    /\ Entries("messages") = 2 + idx + 2 * patch_count

\* C5: a sample that fails validation, cannot be parsed or yields no eligible
\* diff casts no vote and does not end the batch: the loop goes on, and it
\* ends only when the samples are exhausted or the cap is reached.
C5_LocalFailureIsolated ==
    /\ [][pc' = "except" => UNCHANGED << patch_count, model_patches_counter >>]_vars
    /\ [][(pc = "except" /\ exc.kind \in LocalErrors) =>
            /\ pc' = "loop"
            /\ UNCHANGED << idx, patch_count, model_patches_counter >>]_vars
    /\ [](pc \in {"finish", "done"} =>
            (idx = patch_choices \/ patch_count = SuccessCap))

\* A sample is being looked at after an earlier one failed validation.
C5_Witness ==
    /\ pc = "patch"
    /\ Entries("exception") >= 1
    /\ OnlyValidationFailures

\* C6: a vote is added only for a non-empty diff text whose lint passed in the
\* attempt being counted, and every entry of the returned list has such a text.
C6_OnlyLintCleanVotes ==
    /\ [][model_patches_counter' # model_patches_counter =>
            /\ pc = "messages"
            /\ \A k \in Texts :
                 CounterGet(model_patches_counter', k) # CounterGet(model_patches_counter, k)
                    => /\ k # {}
                       /\ \E i \in DOMAIN results :
                            /\ results[i].model_patch = k
                            /\ results[i].is_linted
                            /\ CounterGet(model_patches_counter', k) =
                                 CounterGet(model_patches_counter, k) + results[i].count]_vars
    /\ [](\A i \in DOMAIN output :
            /\ output[i].p # {}
            /\ CounterGet(model_patches_counter, output[i].p) > 0)

\* An attempt whose diff failed lint is about to be tallied while votes exist.
C6_Witness ==
    /\ pc = "messages"
    /\ patch_tool_messages = 0
    /\ model_patches_counter # << >>
    /\ \E i \in DOMAIN results : ~ results[i].is_linted /\ results[i].model_patch # {}

\* C7: in a non-empty returned list each share is the entry's vote count over
\* the total of counted votes, is positive, and the shares sum to 1.
C7_SharesSumToOne ==
    (pc = "done" /\ output # << >>) =>
        /\ \A i \in DOMAIN output :
             /\ output[i].num = CounterGet(model_patches_counter, output[i].p)
             /\ output[i].den = output[1].den
             /\ output[i].num > 0
             /\ output[i].den > 0
        /\ SumNum(output) = output[1].den

\* Two texts were voted for, one of them more than once.
C7_Witness ==
    /\ pc = "done"
    /\ Len(output) = 2
    /\ \E i \in DOMAIN output : output[i].num > 1

\* C8: the returned list holds each voted text exactly once and is in
\* non-increasing order of vote count.
C8_DistinctAndRanked ==
    pc = "done" =>
        /\ Keys(output) = Keys(model_patches_counter)
        /\ \A i, j \in DOMAIN output : i # j => output[i].p # output[j].p
        /\ \A i, j \in DOMAIN output : i < j => output[i].num >= output[j].num

\* The text that was voted for first ended with fewer votes and is ranked last.
C8_Witness ==
    /\ pc = "done"
    /\ Len(output) = 2
    /\ output[1].num > output[2].num
    /\ model_patches_counter[1].p = output[2].p

\* C10: when every accepted attempt yields the same text D and every other
\* sample fails validation, the returned list is the single entry (D, 1.0).
C10_UnanimousConsensus ==
    \A D \in Texts :
        (/\ pc = "done"
         /\ patch_count >= 1
         /\ Keys(model_patches_counter) = {D}
         /\ OnlyValidationFailures)
        => /\ Len(output) = 1
           /\ output[1].p = D
           /\ output[1].num = output[1].den

\* Three attempts agreed on one text and another sample failed validation.
C10_Witness ==
    /\ pc = "done"
    /\ patch_count = SuccessCap
    /\ Entries("exception") = 1
    /\ OnlyValidationFailures
    /\ Cardinality(Keys(model_patches_counter)) = 1

NumAccepted(b) == Cardinality({ i \in DOMAIN b : b[i] # << >> })

\* C9 (as claimed): processing the same samples in any other order returns the
\* same ranked list.
C9_OrderIndependent ==
    bpc = "compared" => scores_permuted = scores

\* C9 (amended): when at most 3 samples of the batch are accepted, any other
\* order returns the same texts with the same vote counts and shares, and the
\* same sequence of counts down the list; only entries with equal counts may
\* change places.
C9_VotesOrderIndependent ==
    (bpc = "compared" /\ NumAccepted(batch) <= SuccessCap) =>
        /\ Len(scores_permuted) = Len(scores)
        /\ { scores_permuted[i] : i \in DOMAIN scores_permuted } =
           { scores[i] : i \in DOMAIN scores }
        /\ \A i \in DOMAIN scores : scores_permuted[i].num = scores[i].num

\* A rearranged batch with a rejected sample whose list has the same votes
\* in a different order.
C9_Witness ==
    /\ bpc = "compared"
    /\ NumAccepted(batch) <= SuccessCap
    /\ NumAccepted(batch) < Len(batch)
    /\ Len(scores) >= 2
    /\ scores_permuted # scores

\* C11: when the samples are exhausted and none was accepted, process returns
\* normally and the returned consensus list is empty; no error is raised.
C11_EmptyConsensusReturned ==
    /\ [][(pc = "loop" /\ idx = patch_choices /\ patch_count = 0) =>
            (pc' = "done" /\ output' = << >> /\ exc' = NoError)]_vars
    /\ []((pc = "done" /\ patch_count = 0) => output = << >>)

\* Every sample of a batch of at least two was rejected and process returned.
C11_Witness ==
    /\ pc = "done"
    /\ patch_choices >= 2
    /\ patch_count = 0
    /\ Entries("exception") = patch_choices
    /\ output = << >>

\* How many processed samples voted for the 1-based position k, and the first
\* sample that did.
VotesFor(k) == Cardinality({ i \in DOMAIN votes : votes[i] = k - 1 })
FirstVoteFor(k) == CHOOSE i \in DOMAIN votes :
                       votes[i] = k - 1 /\ \A j \in 1 .. i - 1 : votes[j] # k - 1

Arbitrated == step = "choose" /\ spc = "done" /\ Len(passed) >= 2

\* C13: called with no candidate, process raises; called with exactly one, it
\* returns that candidate, and no endpoint request is issued and the usage
\* list, the trajectory and the list itself are left as they were.
C13_SoleCandidateReturned ==
    /\ [][(step = "choose" /\ spc = "start" /\ Len(candidates) = 0) =>
            /\ spc' = "raised"
            /\ error' = "no patches for problem"
            /\ chosen' = NoResult]_vars
    /\ [][(step = "choose" /\ spc = "start" /\ Len(candidates) = 1) =>
            /\ spc' = "done"
            /\ chosen' = passed[1]
            /\ UNCHANGED << usages, traj, requests, candidates >>]_vars
    /\ []((step = "choose" /\ Len(passed) = 1 /\ spc # "start") =>
            /\ spc = "done"
            /\ chosen = passed[1]
            /\ requests = 0 /\ usages = << >> /\ traj = << >>)

\* process has returned the only candidate it was given.
C13_Witness ==
    /\ step = "choose" /\ spc = "done"
    /\ Len(passed) = 1
    /\ chosen = passed[1]
    /\ requests = 0

\* C14 (as claimed): with two or more candidates, when position k has strictly
\* more votes than every other position, process returns the entry at position
\* k of the list as it was when process was called.
C14_WinnerAtPassedPosition ==
    \A k \in 1 .. Cardinality(Candidates) :
        (Arbitrated /\ k <= Len(passed)
         /\ \A j \in 1 .. Len(passed) : j # k => VotesFor(k) > VotesFor(j))
        => chosen = passed[k]

\* C14 (amended): with two or more candidates, when position k has strictly
\* more votes than every other position, process returns the entry at position
\* k of the list after the shuffle, the one the prompt named "Solution k";
\* that list is a rearrangement of the list process was called with.
C14_WinnerAtShuffledPosition ==
    /\ (step = "choose" => candidates \in Shuffles(passed))
    /\ \A k \in 1 .. Cardinality(Candidates) :
        (Arbitrated /\ k <= Len(passed)
         /\ \A j \in 1 .. Len(passed) : j # k => VotesFor(k) > VotesFor(j))
        => chosen = candidates[k]

\* Three candidates, the verdicts 2, 2, 1, 2, and the shuffle moved the
\* winner away from position 2 of the list that was passed.
C14_Witness ==
    /\ Arbitrated
    /\ Len(passed) = 3
    /\ votes = << 1, 1, 0, 1 >>
    /\ chosen = candidates[2]
    /\ chosen # passed[2]

\* C15: with two or more candidates, every vote is for a position of the
\* list; when the samples are exhausted process returns if some sample voted
\* and raises "can't choose a solution" if none did; the returned candidate
\* has the most votes, and among positions with as many votes it is the one
\* that was voted for first.
C15_MostVotesOrNoSolution ==
    /\ []((step = "choose") =>
            \A i \in DOMAIN votes :
                votes[i] = NoVerdict \/ votes[i] \in 0 .. Len(candidates) - 1)
    /\ [][(step = "choose" /\ spc = "samples" /\ Len(votes) = choices) =>
            IF \E i \in DOMAIN votes : votes[i] # NoVerdict
            THEN spc' = "done" /\ error' = "none"
            ELSE spc' = "raised" /\ error' = "can't choose a solution"]_vars
    /\ [](Arbitrated =>
            \E k \in 1 .. Len(candidates) :
                /\ chosen = candidates[k]
                /\ VotesFor(k) > 0
                /\ \A j \in 1 .. Len(candidates) :
                     (j # k /\ VotesFor(j) > 0) =>
                        \/ VotesFor(k) > VotesFor(j)
                        \/ VotesFor(k) = VotesFor(j) /\ FirstVoteFor(k) < FirstVoteFor(j))
    /\ []((step = "choose" /\ error = "can't choose a solution") =>
            /\ Len(votes) = choices
            /\ \A i \in DOMAIN votes : votes[i] = NoVerdict)

\* Two positions tied, two samples gave no verdict, and the position voted for
\* first won although it is not the first of the list.
C15_Witness ==
    /\ Arbitrated
    /\ votes = << NoVerdict, 1, 0, NoVerdict >>
    /\ chosen = candidates[2]

\* C16: process raises, and returns nothing, when the content cannot be parsed
\* (the error then quotes the content), when the files list is missing or
\* empty, and when its first element is not a record.
C16_LocateRejects ==
    /\ [][(step = "locate" /\ spc = "parse" /\ content.kind = "unparsable") =>
            /\ spc' = "raised"
            /\ error' = "content is not decodable as json"
            /\ error_payload' = content.raw
            /\ located' = NoResult]_vars
    /\ [][(step = "locate" /\ spc = "parse" /\ content.kind = "dict"
           /\ (~ content.has_files \/ content.files = << >>)) =>
            (spc' = "raised" /\ error' = "no files found" /\ located' = NoResult)]_vars
    /\ [][(step = "locate" /\ spc = "parse" /\ content.kind = "dict"
           /\ content.has_files /\ content.files # << >>
           /\ ~ content.files[1].is_dict) =>
            (spc' = "raised" /\ error' = "files list is not a list of dicts"
             /\ located' = NoResult)]_vars
    /\ []((step = "locate" /\ spc = "done") =>
            /\ content.kind = "dict" /\ content.has_files
            /\ content.files # << >> /\ content.files[1].is_dict)

\* A list whose first element is not a record, although a later one is, was
\* refused.
C16_Witness ==
    /\ step = "locate" /\ spc = "raised"
    /\ error = "files list is not a list of dicts"
    /\ Len(content.files) = 2
    /\ content.files[2].is_dict

\* C17: the returned context_files are exactly the files on disk that some
\* listed record names, below the repository root or relative to it, each
\* once and without the root; to_change_files are exactly those of them that
\* a record tagged "to_change" names; so to_change_files is a subset.
C17_LocatePartition ==
    (step = "locate" /\ spc = "done") =>
        LET files == content.files
            Named(r) == { i \in DOMAIN files : files[i].file_path.rel = r }
        IN  /\ located.context_files = { r \in Disk : Named(r) # {} }
            /\ located.to_change_files =
                 { r \in located.context_files :
                     \E i \in Named(r) : files[i].reason = "to_change" }
            /\ located.to_change_files \subseteq located.context_files

\* The same file was listed with and without the root, one record tagged
\* "to_change", and it was returned once in each list.
C17_Witness ==
    /\ step = "locate" /\ spc = "done"
    /\ Len(content.files) = 2
    /\ content.files[1].file_path.root = RepoRoot
    /\ content.files[2].file_path.root = ""
    /\ content.files[1].file_path.rel = content.files[2].file_path.rel
    /\ content.files[1].reason # content.files[2].reason
    /\ located.context_files = {"a.py"}
    /\ located.to_change_files = {"a.py"}

\* How many surviving samples named the file f.
SamplesNaming(f) == Cardinality({ i \in DOMAIN votes : f \in votes[i] })

AllNamed == UNION { votes[i] : i \in DOMAIN votes }

\* C18: the returned list has at most 5 entries, all distinct and all named by
\* a surviving sample, in non-increasing order of the number of surviving
\* samples that named them, and no file left out was named by more samples
\* than a file in the list.
C18_TopFilesRanked ==
    (step = "explore" /\ spc = "done") =>
        /\ Len(found_files) <= TopFiles
        /\ \A i, j \in DOMAIN found_files : i # j => found_files[i] # found_files[j]
        /\ \A i \in DOMAIN found_files : found_files[i] \in AllNamed
        /\ \A i, j \in DOMAIN found_files :
             i < j => SamplesNaming(found_files[i]) >= SamplesNaming(found_files[j])
        /\ \A f \in AllNamed \ ToSet(found_files) :
             /\ Len(found_files) = TopFiles
             /\ \A i \in DOMAIN found_files :
                  SamplesNaming(found_files[i]) >= SamplesNaming(f)

\* Six files were named, a.py and b.py by two samples each after c.py had been
\* counted, and they lead a list of five.
C18_Witness ==
    /\ step = "explore" /\ spc = "done"
    /\ Cardinality(AllNamed) = 6
    /\ Len(found_files) = TopFiles
    /\ file_counter[1].p = "c.py"
    /\ { found_files[1], found_files[2] } = {"a.py", "b.py"}
    /\ SamplesNaming("a.py") = 2

\* C19: when the samples are exhausted, process raises "no files found" if no
\* sample yielded a filename and returns a non-empty list if one did, however
\* many of the other samples raised.
C19_NoFilesOnlyWhenNoneNamed ==
    /\ [][(step = "explore" /\ spc = "samples" /\ Len(votes) = choices) =>
            IF AllNamed = {}
            THEN spc' = "raised" /\ error' = "no files found" /\ found_files' = << >>
            ELSE spc' = "done" /\ error' = "none" /\ found_files' # << >>]_vars
    /\ []((step = "explore" /\ error = "no files found") => AllNamed = {})
    /\ []((step = "explore" /\ spc = "done") => (found_files # << >> /\ AllNamed # {}))

\* One sample of four named a file, the other three raised, and process
\* returned that file.
C19_Witness ==
    /\ step = "explore" /\ spc = "done"
    /\ Len(votes) = 4
    /\ Cardinality({ i \in DOMAIN votes : votes[i] = {} }) = 3
    /\ Len(found_files) = 1

\* C12 (as claimed): whenever process of any of the four steps returns, what
\* it returns is populated: a context file, a file, a consensus entry, a
\* chosen candidate.
C12_OutputPopulated ==
    /\ (step = "locate" /\ spc = "done") => located.context_files # {}
    /\ (step = "explore" /\ spc = "done") => found_files # << >>
    /\ (step = "patch" /\ pc = "done") => output # << >>
    /\ (step = "choose" /\ spc = "done") => chosen \in ToSet(passed)

\* C12 (amended): Explore-Repository and Choose-Solution return a populated
\* result or raise; Locate returns only for a non-empty files list, and its
\* context_files are empty exactly when no listed path exists on disk;
\* Produce-Patch returns an empty list exactly when no sample was accepted.
C12_PopulatedExceptLocateAndPatch ==
    /\ (step = "explore" /\ spc = "done") => found_files # << >>
    /\ (step = "explore" /\ Len(votes) = choices /\ AllNamed = {})
            => spc \in {"samples", "raised"}
    /\ (step = "choose" /\ spc = "done") => chosen \in ToSet(passed)
    /\ (step = "choose" /\ Len(passed) >= 2 /\ Len(votes) = choices
        /\ \A i \in DOMAIN votes : votes[i] = NoVerdict)
            => spc \in {"samples", "raised"}
    /\ (step = "locate" /\ spc = "done") =>
            /\ FilesList(content) # << >>
            /\ located.context_files = {} <=>
                 \A i \in DOMAIN content.files : content.files[i].file_path.rel \notin Disk
    /\ (step = "patch" /\ pc = "done") => (output = << >> <=> patch_count = 0)

\* Locate returned without a context file: two files were listed and neither
\* exists on disk.
C12_Witness ==
    /\ step = "locate" /\ spc = "done"
    /\ Len(content.files) = 2
    /\ located.context_files = {}
    /\ located.to_change_files = {}

IsPrefix(a, b) == Len(a) <= Len(b) /\ SubSeq(b, 1, Len(a)) = a

\* The sum of one field over the Usage records at the positions S of a list.
RECURSIVE SumField(_, _, _)
SumField(us, S, field) ==
    IF S = {} THEN 0
    ELSE LET i == CHOOSE j \in S : TRUE
         IN  us[i][field] + SumField(us, S \ {i}, field)

Recorded(us) == { i \in DOMAIN us : us[i].is_usage }

UsageFields == {"completion_tokens", "prompt_tokens", "total_tokens"}

\* C20: every step leaves the earlier usage list and the earlier trajectory as
\* a prefix of the later ones; each total the usage property reports is the
\* sum of that field over the recorded Usage records, is not negative, and
\* does not decrease.
C20_AppendOnlyAccounting ==
    /\ [][IsPrefix(usages, usages') /\ IsPrefix(traj, traj')]_vars
    /\ [](LET total == Usage(usages)
          IN  \A f \in UsageFields :
                /\ total[f] = SumField(usages, Recorded(usages), f)
                /\ total[f] >= 0)
    /\ [][LET before == Usage(usages)
              after == Usage(usages')
          IN  \A f \in UsageFields : after[f] >= before[f]]_vars

\* A bare Step recorded a message without usage between two Usage records
\* whose total_tokens are not the sum of their other two fields.
C20_Witness ==
    /\ step = "base"
    /\ Len(usages) = 3
    /\ usages[1].is_usage /\ ~ usages[2].is_usage /\ usages[3].is_usage
    /\ usages[1] # usages[3]
    /\ Usage(usages).total_tokens = 8
    /\ Len(traj) = 2

\* C21: at any moment at most one diff is applied to the working tree, the
\* one _patch_generate is working on, and every apply starts from the
\* checked-out tree.
C21_OneDiffFromPristineTree ==
    /\ tree \subseteq formatted_diff.chunks
    /\ pc = "apply" => tree = {}

\* C22: a sample that failed earlier in the batch leaves no trace in a later
\* sample: the text captured for a later diff is the text of that diff applied
\* to the checked-out tree, as it is when the failed sample is taken out of
\* the batch, and so is the eligibility that follows from it.
C22_FailedSampleLeavesNoTrace ==
    (pc = "lint" /\ Entries("exception") > 0) =>
        /\ result = GitDiff(DiffApply({}, formatted_diff.chunks))
        /\ (result = {}) = (formatted_diff.chunks = {})

\* The recorded-exception entries of an ordered trajectory.
Exceptions(t) == Cardinality({ i \in DOMAIN t : t[i] = "exception" })

\* C23: in each of the three sampling steps the trajectory holds one
\* recorded-exception entry for each sample excluded because its processing
\* raised.
C23_RaisingSamplesRecorded ==
    /\ step = "explore" =>
           Exceptions(traj) = Cardinality({ i \in DOMAIN votes : votes[i] = {} })
    /\ step = "choose" =>
           Exceptions(traj) = Cardinality({ i \in DOMAIN votes : votes[i] = NoVerdict })
    /\ (step = "patch" /\ pc \in {"loop", "finish", "done"}) =>
           Entries("exception") = idx - patch_count

\* C24: the checks of _patch let a sample through to the deterministic patch
\* call only when its tool call is the patch tool with exactly one target path
\* and a non-empty plan; any other sample is rejected there, and the checks
\* themselves make no request and leave the working tree alone.
C24_OnlyWellFormedSamplesSent ==
    [][pc = "patch" =>
          /\ pc' = (IF sample = "ok" THEN "query" ELSE "except")
          /\ sent' = sent
          /\ tree' = tree]_vars

\* The order of the stages of an attempt, as steps of pc: taken from the batch
\* (loop), proposed (patch), validated (query), diff obtained (messages),
\* applied (git_diff), captured (lint), linted (revert), reverted (messages
\* again), and from there counted (loop or finish) or, from any stage,
\* rejected (except, then loop).
StageOrder ==
    { << "start", "context" >>, << "start", "raised" >>,
      << "context", "loop" >>, << "context", "raised" >>,
      << "loop", "patch" >>, << "patch", "query" >>, << "query", "messages" >>,
      << "messages", "apply" >>, << "apply", "git_diff" >>,
      << "git_diff", "lint" >>, << "lint", "revert" >>, << "revert", "messages" >>,
      << "messages", "loop" >>, << "messages", "finish" >>,
      << "except", "loop" >>, << "loop", "done" >>, << "finish", "done" >> } \cup
    { << p, "except" >> :
        p \in {"patch", "query", "messages", "apply", "git_diff", "lint", "revert"} }

\* C25: an attempt goes through its stages in order; the working tree is
\* touched only for a sample that passed the checks; a vote is counted only
\* when no diff of the attempt is in hand, each one having been reverted when
\* it was put down; and every sample taken from the batch ends either counted
\* or rejected with an exception entry, never both and never neither.
C25_StagesInOrder ==
    /\ [][pc' # pc => << pc, pc' >> \in StageOrder]_vars
    /\ [][tree' # tree => (pc \in {"apply", "revert"} /\ sample = "checked")]_vars
    /\ [][(pc = "revert" /\ pc' = "messages") =>
             tree' \cap formatted_diff.chunks = {}]_vars
    /\ [][model_patches_counter' # model_patches_counter =>
             /\ pc = "messages" /\ patch_tool_messages = 0
             /\ formatted_diff = NoDiff
             /\ patch_count' = patch_count + 1
             /\ Entries("exception")' = Entries("exception")]_vars
    /\ [](pc \in {"loop", "finish", "done"} =>
             idx = patch_count + Entries("exception"))

\* One attempt of the batch went through every stage and was counted, and
\* another one was rejected after its diff had been applied.
C25_Witness ==
    /\ pc = "except" /\ exc.stage = "lint"
    /\ patch_count = 1 /\ idx = 2
    /\ Entries("exception") = 0

\* The lines of the text after the last "result" that start with "solution"
\* and go on with a 1-based integer within range.
InRangeLines(lines, n) ==
    { i \in DOMAIN lines :
        lines[i].kind = "solution" /\ 1 <= lines[i].num /\ lines[i].num <= n }

\* C26: _extract_solution returns the index an in-range "solution" line of the
\* text after the last "result" names whenever that text has such a line, and
\* raises otherwise; a line that is out of range or does not parse is passed
\* over and takes nothing else with it.
C26_VoteForInRangeLine ==
    (call_result # NotCalled /\ call_message.role = "assistant"
                             /\ call_message.is_str) =>
        LET lines == ResultText(call_message.parts)
            good  == InRangeLines(lines, call_n_solutions)
        IN  IF good = {}
            THEN call_result = NoVerdict
            ELSE \E i \in good : call_result = lines[i].num - 1

\* The requests made so far through the method `via`, and how many they are.
Via(via) == { r \in BagToSet(sent) : r.via = via }
Made(via) == BagCardinality([r \in Via(via) |-> sent[r]])

\* C27: a run of Locate.process has made no request before its call and
\* exactly one from then on, whether the call was answered or refused: a
\* request for one continuation with the deterministic flag set whose last
\* message is an assistant turn with the single tool call "locate", the
\* problem statement being its only argument; no request of the run is a
\* sampled one.
C27_OneDeterministicLocateCall ==
    step = "locate" =>
        /\ spc = "start" => sent = EmptyBag
        /\ spc # "start" =>
              /\ BagCardinality(sent) = 1
              /\ \A r \in BagToSet(sent) :
                    /\ r.n = 1 /\ r.deterministic
                    /\ r.last_role = "assistant"
                    /\ Len(r.tool_calls) = 1
                    /\ r.tool_calls[1].name = "locate"
                    /\ r.tool_calls[1].arguments = {"problem_statement"}
        /\ Made("query_choices") = 0

\* Locate.process returned a result after its one request.
C27_Witness ==
    /\ step = "locate" /\ spc = "done"
    /\ located.to_change_files # {}
    /\ BagCardinality(sent) = 1 /\ requests = 1

\* C28: every request made through _deterministic_tool_call_messages, by
\* whichever step, asks for one continuation with the deterministic flag set
\* and ends with an assistant turn whose tool calls are the given functions,
\* as many and in the same order; every request made through _query_choices
\* has the flag unset.
C28_DeterministicFlag ==
    /\ \A r \in BagToSet(sent) :
          /\ r.via = "deterministic_tool_call_messages" =>
                /\ r.n = 1
                /\ r.deterministic
                /\ r.last_role = "assistant"
                /\ Len(r.tool_calls) = Len(r.functions)
                /\ \A j \in DOMAIN r.functions : r.tool_calls[j] = r.functions[j]
          /\ r.via = "query_choices" => ~ r.deterministic

\* A Step was asked for the deterministic call of two different functions and
\* for sampled choices.
C28_Witness ==
    /\ step = "base"
    /\ BagCardinality(sent) = 2
    /\ \E r \in Via("deterministic_tool_call_messages") :
          Len(r.functions) = 2 /\ r.functions[1] # r.functions[2]
    /\ Made("query_choices") = 1

\* C29: a sampled request carries {patch} in Produce-Patch and the empty set
\* in Explore-Repository and Choose-Solution; in Produce-Patch the tool set is
\* {definition, references} from the start of context assembly, which is what
\* the context call carries, and {patch} from the sampling request on, which
\* is what that request and every patch call carry.
C29_ToolSetOfPhase ==
    /\ step \in {"explore", "choose"} =>
          \A r \in BagToSet(sent) : r.via = "query_choices" => r.tools_turn_on = {}
    /\ step = "patch" =>
          /\ \A r \in BagToSet(sent) :
                /\ r.via = "query_choices" => r.tools_turn_on = {"patch"}
                /\ r.via = "deterministic_tool_call_messages" =>
                      r.tools_turn_on = {"definition", "references"}
                /\ r.via = "query" => r.tools_turn_on = {"patch"}
          /\ pc = "context" => active_tools = {"definition", "references"}
          /\ pc \in {"loop", "patch", "query", "messages", "apply", "git_diff",
                     "lint", "revert", "except", "finish", "done"}
                => active_tools = {"patch"}

\* Produce-Patch made its context call, its sampling request and the patch
\* call of a sample.
C29_Witness ==
    /\ step = "patch" /\ pc = "messages"
    /\ BagCardinality(sent) = 3
    /\ Made("query_choices") = 1
    /\ \E r \in Via("query") : r.tool_calls[1].name = "patch"

\* C30: a run of a sampling step makes at most one sampling request, for all
\* its N choices at once, and only when its context call has been made,
\* answered and printed; it has made exactly one whenever a sample has been
\* taken or the run has gone through its loop, and Choose-Solution none when
\* it returns a sole candidate; in Produce-Patch each sample taken accounts
\* for at most one further request.
C30_OneSamplingRequest ==
    step \in {"explore", "choose", "patch"} =>
        LET wanted   == IF step = "patch" THEN patch_choices ELSE choices
            context  == IF step = "patch" THEN "deterministic_tool_call_messages"
                        ELSE "query"
            printed  == IF step = "patch" THEN Entries("messages") > 0
                        ELSE traj # << >>
            taken    == IF step = "patch" THEN idx ELSE Len(votes)
            through  == IF step = "patch" THEN pc = "done"
                        ELSE spc = "done" /\ (step = "choose" => Len(passed) >= 2)
            sampling == Made("query_choices")
        IN  /\ sampling <= 1
            /\ \A r \in BagToSet(sent) : r.via = "query_choices" => r.n = wanted
            /\ sampling = 1 =>
                  /\ \E r \in BagToSet(sent) : r.via = context
                  /\ \A r \in BagToSet(sent) :
                        r.via = context => (r.deterministic /\ r.n = 1)
                  /\ printed
            /\ (taken > 0 \/ through) => sampling = 1
            /\ (step = "choose" /\ Len(passed) < 2) => sent = EmptyBag
            /\ step = "patch" => BagCardinality(sent) <= 2 + idx

\* Explore-Repository went through its three samples after one request.
C30_Witness ==
    /\ step = "explore" /\ spc = "done"
    /\ choices = 3 /\ Len(votes) = 3
    /\ BagCardinality(sent) = 2
    /\ \E r \in Via("query_choices") : r.n = 3

\* The steps process still has to take, as a number that every step lowers:
\* the samples not yet taken weigh more than anything one sample can need,
\* and within a sample the returned messages not yet looked at weigh more
\* than the stages of one _patch_generate call.
PerSample == 5 * MaxMsgs + 11

StepsLeft ==
    LET samples == (patch_choices - idx) * PerSample
        inner   == 5 * patch_tool_messages
    IN  IF pc = "start" THEN samples + 3
        ELSE IF pc = "context" THEN samples + 2
        ELSE IF pc \in {"loop", "finish"} THEN samples + 1
        ELSE IF pc = "patch" THEN samples + 5 * MaxMsgs + 10
        ELSE IF pc = "query" THEN samples + 5 * MaxMsgs + 9
        ELSE IF pc = "messages" THEN samples + inner + 4
        ELSE IF pc = "apply" THEN samples + inner + 8
        ELSE IF pc = "git_diff" THEN samples + inner + 7
        ELSE IF pc = "lint" THEN samples + inner + 6
        ELSE IF pc = "revert" THEN samples + inner + 5
        ELSE IF pc = "except" THEN samples + 2
        ELSE 0

\* The guards of the steps of process: the one of the stage, and for the two
\* loops the one that goes on and the one that leaves.
CanStep ==
    \/ pc \in {"start", "context", "patch", "query", "apply", "git_diff", "lint",
                "revert", "except", "finish"}
    \/ pc = "loop" /\ idx < patch_choices
    \/ pc = "loop" /\ idx = patch_choices
    \/ pc = "messages" /\ patch_tool_messages > 0
    \/ pc = "messages" /\ patch_tool_messages = 0

\* C31: ProducePatchStep.process terminates when every request and every
\* subprocess call returns or fails: every step lowers a number that is never
\* negative, and a step can be taken until process has returned or raised; it
\* takes the samples one by one and none twice, never more of them than the
\* batch holds, has made at most one deterministic patch request per sample
\* taken, and once the batch has been received it ends by returning.
C31_ProcessTerminates ==
    /\ [][StepsLeft' < StepsLeft]_vars
    /\ [](StepsLeft >= 0)
    /\ [](StepsLeft = 0 <=> pc \in {"done", "raised"})
    /\ [](pc \notin {"done", "raised"} => CanStep)
    /\ [](idx <= patch_choices)
    /\ [][idx' = idx \/ (pc = "loop" /\ idx' = idx + 1)]_vars
    /\ [](Made("query") <= idx)
    /\ [][sent' # sent =>
             \/ pc \in {"start", "context"}
             \/ pc = "query" /\ idx' = idx /\ Made("query")' = Made("query") + 1]_vars
    /\ [](pc = "raised" => (idx = 0 /\ Made("query") = 0))
    /\ [][(pc \in {"loop", "finish"} /\ pc' \notin {"patch", "loop", "finish"})
             => pc' = "done"]_vars

\* process returned after it took every sample of a batch of MaxChoices, some
\* of them refused before their patch request.
C31_Witness ==
    /\ pc = "done"
    /\ patch_choices = MaxChoices /\ idx = patch_choices
    /\ Made("query") > 0 /\ Made("query") < idx

\* How often a text occurs in a list.
Occurrences(l, c) == Cardinality({ i \in DOMAIN l : l[i] = c })

\* C32: with two or more candidates the list of ChooseSolutionStep.process
\* always holds the candidates it was called with, each as often, in some
\* order, and it changes only at the shuffle; the prompt built after the
\* shuffle presents them all, and when process returns, it returns one of the
\* candidates it was called with, the one the prompt presented under the
\* label "Solution k" of a position k with the most votes.
C32_ReturnsLabelledCandidate ==
    /\ []((step = "choose" /\ Len(passed) >= 2) =>
            /\ Len(candidates) = Len(passed)
            /\ \A c \in Candidates : Occurrences(candidates, c) = Occurrences(passed, c))
    /\ [][(step = "choose" /\ spc # "shuffle") =>
             (candidates' = candidates /\ prompt' = prompt)]_vars
    /\ []((step = "choose" /\ spc \in {"context", "query", "samples", "done"}
           /\ Len(passed) >= 2) =>
            /\ Len(prompt) = Len(passed)
            /\ \A c \in ToSet(passed) : \E i \in DOMAIN prompt : prompt[i].patch = c)
    /\ [](Arbitrated =>
            /\ chosen \in ToSet(passed)
            /\ \E k \in 1 .. Len(passed) :
                  /\ VotesFor(k) > 0
                  /\ \A j \in 1 .. Len(passed) : VotesFor(k) >= VotesFor(j)
                  /\ \E i \in DOMAIN prompt :
                        prompt[i].label = k /\ prompt[i].patch = chosen
                  /\ \A i \in DOMAIN prompt :
                        prompt[i].label = k => prompt[i].patch = chosen)

\* Three candidates were reordered by the shuffle, and process returned the
\* one presented as "Solution 3", which is not the third of the caller's list.
C32_Witness ==
    /\ Arbitrated
    /\ Len(passed) = 3
    /\ candidates # passed
    /\ VotesFor(3) = 2 /\ VotesFor(1) = 1 /\ VotesFor(2) = 0
    /\ \E i \in DOMAIN prompt : prompt[i].label = 3 /\ prompt[i].patch = chosen
    /\ chosen # passed[3]

\* C33: when _patch has made its request for a sample, it is the only
\* request, it asks for one deterministic continuation after an assistant
\* turn, and that turn carries exactly one tool call, the patch call that was
\* the first of the sample, whatever tool calls followed it; the message is
\* left with that call alone. For a sample that fails a check no request is
\* made.
C33_OnlyFirstToolCallSent ==
    /\ (patch_call_outcome = "sent") =>
            /\ patch_call_message # << >>
            /\ BagCardinality(sent) = 1
            /\ \A r \in BagToSet(sent) :
                  /\ r.via = "query"
                  /\ r.n = 1 /\ r.deterministic /\ r.last_role = "assistant"
                  /\ Len(r.tool_calls) = 1
                  /\ r.tool_calls[1].name = "patch"
                  /\ r.tool_calls[1].name = patch_call_message[1].name
                  /\ ("paths" \in r.tool_calls[1].arguments
                         <=> patch_call_message[1].arguments # "no_paths")
            /\ patch_call_tool_calls = << patch_call_message[1] >>
    /\ patch_call_outcome # "sent" =>
            (sent = EmptyBag /\ patch_call_tool_calls = patch_call_message)

\* A sample with a valid patch call followed by another patch call for a
\* second file was sent with the first call alone.
C33_Witness ==
    /\ patch_call_outcome = "sent"
    /\ patch_call_message = << [name |-> "patch", arguments |-> "ok"],
                               [name |-> "patch", arguments |-> "no_todo"] >>
    /\ \E r \in Via("query") :
          r.tool_calls = << Fn("patch", {"paths", "todo"}) >>

\* The runner is inside _start.
InStart == rpc \in {"new", "reading", "sleeping"}

\* C34: _start returns only at the read of a line with "AST COMPLETE" while
\* the runner sees the server running; a read that ends when the server has
\* been seen to exit makes _start raise; once the server has exited without
\* that line left to read, _start raises in the end; and once the server has
\* written that line or exited, _start returns or raises in the end.
C34_StartWaitsForAst ==
    /\ [][(rpc # "body" /\ rpc' = "body") =>
             /\ rpc = "reading"
             /\ stderr_pipe # << >> /\ Head(stderr_pipe) = "ast"
             /\ lsp_server = "Process" /\ returncode = "None"]_vars
    /\ [][(rpc = "reading" /\ rpc' # "reading" /\ returncode # "None") =>
             /\ rpc' = "start_raised"
             /\ runner_error' \in {"RuntimeError", "AssertionError"}]_vars
    /\ (InStart /\ server = "exited" /\ "ast" \notin ToSet(stderr_pipe))
          ~> (rpc = "start_raised")
    /\ (InStart /\ (server = "exited" \/ "ast" \in ToSet(stderr_pipe)))
          ~> (~ InStart)

\* _start returned: it read a line without "AST COMPLETE", slept, and then
\* read the line with it from a server that was still running.
C34_Witness ==
    /\ rpc = "body"
    /\ written = 2 /\ stderr_pipe = << >>
    /\ server = "running" /\ returncode = "None"
    /\ runner_error = "none"

\* C35: when the `async with` block has been left, normally or by an
\* exception of its body, the server process has exited and has been reaped,
\* and the runner reports it as not running; _stop returns only after it has
\* signalled the server, unless the server had been reaped before.
C35_ServerStoppedOnExit ==
    /\ [](rpc = "left" =>
            /\ server = "exited"
            /\ returncode # "None"
            /\ ~ IsLspServerRunning)
    /\ [][(rpc = "stopping" /\ rpc' = "waiting") =>
             (sigterm' \/ returncode # "None")]_vars
    /\ [][(rpc # "left" /\ rpc' = "left") =>
             (rpc \in {"stopping", "waiting"} /\ returncode # "None")]_vars

\* The block was left by an exception of its body after the server, still
\* running then, had been signalled and waited for.
C35_Witness ==
    /\ rpc = "left"
    /\ runner_error = "BodyError"
    /\ sigterm
    /\ server = "exited" /\ returncode = "set"

====
